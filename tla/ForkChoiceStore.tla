-------------------------- MODULE ForkChoiceStore --------------------------
(***************************************************************************)
(* The fork-choice store of crates/pharos-fork-choice (store.rs,           *)
(* handlers.rs, get_head.rs, optimistic.rs).  The handlers are operators   *)
(* from stores to stores, as in the code; ForkChoice and EngineDriver are  *)
(* the tasks that call them under the store's lock.                        *)
(*                                                                         *)
(* The tree of blocks that exist is a constant: a root is a positive       *)
(* number, the order of numbers is the order of roots in the tie-break of  *)
(* get_head, and what the state transition computes for a block (its       *)
(* checkpoints) is given by constant functions.  Time is counted in slots. *)
(* Of block_states and unrealized_justifications a store keeps the keys,   *)
(* `states` and `pulled`: they fall short of `blocks` after a restart.     *)
(***************************************************************************)
EXTENDS Integers, FiniteSetsExt

CONSTANTS
    SlotsPerEpoch,
    Roots, Anchor, Parent, Slot,    \* the blocks that exist
    Chain,                          \* Chain[r]: r and its ancestors down to the anchor
    Justified, Finalized,           \* checkpoints in the post-state of a block
    UnrealizedJ, UnrealizedF,       \* the same after process_justification_and_finalization
    Exec,                           \* blocks that carry an execution payload
    Validators, Balance, ProposerScore

ASSUME EpochAssumption == SlotsPerEpoch \in Nat \ {0}

Zero == 0                           \* Root::default()
Epoch(slot) == slot \div SlotsPerEpoch
StartSlot(epoch) == epoch * SlotsPerEpoch
Checkpoint == [epoch : Nat, root : Nat]
AnchorCheckpoint == [epoch |-> Epoch(Slot[Anchor]), root |-> Anchor]

ASSUME TreeAssumption ==
    /\ Roots \subseteq Nat \ {Zero} /\ Anchor \in Roots
    /\ Slot \in [Roots -> Nat] /\ Parent \in [Roots -> Nat] /\ Parent[Anchor] \notin Roots
    /\ \A r \in Roots \ {Anchor} : Parent[r] \in Roots /\ Slot[Parent[r]] < Slot[r]
    /\ Chain \in [Roots -> SUBSET Roots] /\ Chain[Anchor] = {Anchor}
    /\ \A r \in Roots \ {Anchor} : Chain[r] = {r} \cup Chain[Parent[r]]
    /\ Exec \subseteq Roots

(***************************************************************************)
(* What process_justification_and_finalization gives for one block: what   *)
(* it justifies is not behind what it finalizes, and pulling a block up to *)
(* the next epoch never takes a checkpoint back.                           *)
(***************************************************************************)
ASSUME PostStateAssumption ==
    /\ {Justified, Finalized, UnrealizedJ, UnrealizedF} \subseteq [Roots -> Checkpoint]
    /\ UnrealizedJ[Anchor] = AnchorCheckpoint
    /\ \A r \in Roots : /\ Finalized[r].epoch <= Justified[r].epoch
                        /\ UnrealizedF[r].epoch <= UnrealizedJ[r].epoch
                        /\ Justified[r].epoch <= UnrealizedJ[r].epoch
                        /\ Finalized[r].epoch <= UnrealizedF[r].epoch

JustifiedCheckpoints == {AnchorCheckpoint} \cup {Justified[r] : r \in Roots} \cup {UnrealizedJ[r] : r \in Roots}
FinalizedCheckpoints == {AnchorCheckpoint} \cup {Finalized[r] : r \in Roots} \cup {UnrealizedF[r] : r \in Roots}

(***************************************************************************)
(* Accountable safety of Casper FFG, while fewer than a third of the       *)
(* validators are slashable: a checkpoint justified in or after the epoch  *)
(* of a finalized one descends from it as a checkpoint, so that the        *)
(* finalized block is the one of its epoch on that chain.                  *)
(***************************************************************************)
ASSUME CasperAssumption ==
    \A f \in FinalizedCheckpoints, c \in JustifiedCheckpoints \cup FinalizedCheckpoints :
        AnchorCheckpoint.epoch <= f.epoch /\ f.epoch <= c.epoch
            => /\ c.root \in Roots /\ f.root \in Chain[c.root]
               /\ \A q \in Chain[c.root] : Slot[q] <= StartSlot(f.epoch) => q \in Chain[f.root]

(***************************************************************************)
(* A state takes the root of a checkpoint from the roots of its own        *)
(* history, at the first slot of the epoch (get_block_root); the anchor's  *)
(* checkpoint, and older ones, it may have been given.                     *)
(***************************************************************************)
ASSUME HistoryAssumption ==
    \A r \in Roots : \A c \in {Justified[r], Finalized[r], UnrealizedJ[r], UnrealizedF[r]} :
        AnchorCheckpoint.epoch < c.epoch
            => c.root \in Chain[r] /\ Slot[c.root] <= StartSlot(c.epoch)

ASSUME WeightAssumption ==
    IsFiniteSet(Validators) /\ Balance \in [Validators -> Nat] /\ ProposerScore \in Nat

DefaultCheckpoint == [epoch |-> 0, root |-> Zero]
NoVote == [epoch |-> -1, root |-> Zero]
Statuses == {"None", "NotValidated", "Valid", "Invalid"}

-----------------------------------------------------------------------------
(* Checkpoints and the clock (handlers.rs). *)

(* A checkpoint is replaced by one of a later epoch only. *)
Promote(old, new) == IF new.epoch > old.epoch THEN new ELSE old

(* Mutant: the finalized checkpoint is taken from whatever block came last. *)
UpdateCheckpointsUnguardedF(s, j, f) ==
    [s EXCEPT !.justified = Promote(@, j), !.finalized = f]

UpdateCheckpoints(s, j, f) ==
    [s EXCEPT !.justified = Promote(@, j), !.finalized = Promote(@, f)]

(* Mutant: the two checkpoints are passed in the wrong order. *)
UpdateUnrealizedCheckpointsSwapped(s, j, f) ==
    [s EXCEPT !.unrealizedJ = Promote(@, f), !.unrealizedF = Promote(@, j)]

UpdateUnrealizedCheckpoints(s, j, f) ==
    [s EXCEPT !.unrealizedJ = Promote(@, j), !.unrealizedF = Promote(@, f)]

(* Mutant: only the unrealized checkpoints of a late block are promoted. *)
ComputePulledUpTipLazily(s, r) ==
    UpdateUnrealizedCheckpoints(s, UnrealizedJ[r], UnrealizedF[r])

(* Mutant: a late block is realized at once and not entered among the unrealized ones. *)
ComputePulledUpTipEither(s, r) ==
    IF Epoch(Slot[r]) < Epoch(s.time)
    THEN UpdateCheckpoints(s, UnrealizedJ[r], UnrealizedF[r])
    ELSE UpdateUnrealizedCheckpoints(s, UnrealizedJ[r], UnrealizedF[r])

ComputePulledUpTip(s, r) ==
    LET u == UpdateUnrealizedCheckpoints(s, UnrealizedJ[r], UnrealizedF[r])
    IN  IF Epoch(Slot[r]) < Epoch(s.time)
        THEN UpdateCheckpoints(u, UnrealizedJ[r], UnrealizedF[r])
        ELSE u

(* Mutant: the time is set to the end of the slot before. *)
CrossSlotsLate(s, t, crossed) ==
    LET u == [s EXCEPT !.time = t - 1, !.boost = IF crossed = {} THEN @ ELSE Zero]
    IN  IF \E k \in crossed : k % SlotsPerEpoch = 0
        THEN UpdateCheckpoints(u, u.unrealizedJ, u.unrealizedF)
        ELSE u

(* The effect of the slots crossed on the way to slot t. *)
CrossSlots(s, t, crossed) ==
    LET u == [s EXCEPT !.time = t, !.boost = IF crossed = {} THEN @ ELSE Zero]
    IN  IF \E k \in crossed : k % SlotsPerEpoch = 0
        THEN UpdateCheckpoints(u, u.unrealizedJ, u.unrealizedF)
        ELSE u

(* Mutant: the boost is kept over the slot boundary. *)
OnTickPerSlotKeepsBoost(s, t) ==
    [CrossSlots(s, t, {k \in {t} : k > s.time}) EXCEPT !.boost = s.boost]

OnTickPerSlot(s, t) == CrossSlots(s, t, {k \in {t} : k > s.time})

(* on_tick goes slot by slot; a reading behind store.time takes it back and crosses nothing.  *)
OnTick(s, t) == CrossSlots(s, t, (s.time + 1)..t)

-----------------------------------------------------------------------------
(* The block tree (get_head.rs). *)

GetAncestor(s, root, slot) ==
    LET up[r \in Roots \cup {Parent[Anchor]}] ==
            IF r \notin s.blocks \/ Slot[r] <= slot THEN r ELSE up[Parent[r]]
    IN  up[root]

GetCheckpointBlock(s, root, epoch) == GetAncestor(s, root, StartSlot(epoch))

Children(s, r) == {c \in s.blocks : Parent[c] = r}

GetAttestationScore(s, r) ==
    LET counts(v) == /\ s.latest[v] # NoVote
                     /\ v \notin s.equivocating
                     /\ GetAncestor(s, s.latest[v].root, Slot[r]) = r
    IN  MapThenSumSet(LAMBDA v : Balance[v], {v \in Validators : counts(v)})

(* Without the state of the justified checkpoint every block weighs nothing. *)
GetWeight(s, r) ==
    IF s.justified \notin s.checkpointStates THEN 0
    ELSE GetAttestationScore(s, r)
         + IF s.boost # Zero /\ GetAncestor(s, s.boost, Slot[r]) = r THEN ProposerScore ELSE 0

(* What a restart has not rebuilt counts as the default checkpoint. *)
GetVotingSource(s, r) ==
    IF Epoch(s.time) > Epoch(Slot[r])
    THEN IF r \in s.pulled THEN UnrealizedJ[r] ELSE DefaultCheckpoint
    ELSE IF r \in s.states THEN Justified[r] ELSE DefaultCheckpoint

ViableLeaf(s, r) ==
    /\ \/ s.justified.epoch = 0
       \/ GetVotingSource(s, r).epoch = s.justified.epoch
       \/ GetVotingSource(s, r).epoch + 2 >= Epoch(s.time)
    /\ \/ s.finalized.epoch = 0
       \/ GetCheckpointBlock(s, r, s.finalized.epoch) = s.finalized.root

(* Mutant: the payload status is looked at on leaves only. *)
FilterBlockTreeAtLeaves(s) ==
    LET viable[r \in s.blocks] ==
            IF Children(s, r) = {} THEN s.status[r] # "Invalid" /\ ViableLeaf(s, r)
                                   ELSE \E c \in Children(s, r) : viable[c]
    IN  {r \in s.blocks : viable[r]}

(* filter_block_tree: the blocks that it finds viable. *)
FilterBlockTree(s) ==
    LET viable[r \in s.blocks] ==
            /\ s.status[r] # "Invalid"
            /\ IF Children(s, r) = {} THEN ViableLeaf(s, r)
                                      ELSE \E c \in Children(s, r) : viable[c]
    IN  {r \in s.blocks : viable[r]}

EffectiveBase(s) == IF s.justified.root \in s.blocks THEN s.justified.root ELSE s.finalized.root

Heaviest(s, C) ==
    CHOOSE r \in C : \A q \in C \ {r} :
        \/ GetWeight(s, q) < GetWeight(s, r)
        \/ GetWeight(s, q) = GetWeight(s, r) /\ q < r

GetHead(s) ==
    LET tree == FilterBlockTree(s)
        down[r \in s.blocks] == LET C == Children(s, r) \cap tree
                                IN  IF C = {} THEN r ELSE down[Heaviest(s, C)]
        base == EffectiveBase(s)
    IN  IF base \in tree THEN down[base] ELSE base

-----------------------------------------------------------------------------
(* on_block.  `elected` stands for the two facts that the model does not compute: the block   *)
(* came before the attestation deadline and its proposer is the one the head state names.     *)

AcceptsBlock(s, r) ==
    /\ Parent[r] \in s.states
    /\ Slot[r] <= s.time
    /\ Slot[r] > StartSlot(s.finalized.epoch)
    /\ GetCheckpointBlock(s, Parent[r], s.finalized.epoch) = s.finalized.root

UpdateProposerBoostRoot(s, r, now, elected) ==
    [s EXCEPT !.boost = IF now = Slot[r] /\ elected /\ @ = Zero THEN r ELSE @]

(* The entry of unrealized_justifications is the one that compute_pulled_up_tip makes. *)
InsertBlock(s, r) ==
    [s EXCEPT !.blocks = @ \cup {r}, !.states = @ \cup {r}, !.pulled = @ \cup {r},
              !.status[r] = IF @ = "None" THEN "NotValidated" ELSE @]

OnBlock(s, r, now, elected) ==
    LET boosted == UpdateProposerBoostRoot(InsertBlock(s, r), r, now, elected)
    IN  ComputePulledUpTip(UpdateCheckpoints(boosted, Justified[r], Finalized[r]), r)

(* import_block: advance-only, and one step however far the clock is ahead. *)
Nudge(s, now) == IF now > s.time THEN OnTickPerSlot(s, now) ELSE s

-----------------------------------------------------------------------------
(* on_attestation and on_attester_slashing. *)

ValidAttestation(s, a, fromBlock) ==
    /\ fromBlock \/ a.target.epoch \in {Epoch(s.time), Epoch(s.time) - 1}
    /\ a.target.epoch = Epoch(a.slot)
    /\ a.target.root \in s.blocks /\ a.root \in s.blocks
    /\ Slot[a.root] <= a.slot
    /\ GetCheckpointBlock(s, a.root, a.target.epoch) = a.target.root
    /\ a.slot + 1 <= s.time

UpdateLatestMessages(s, V, a) ==
    [s EXCEPT !.checkpointStates = @ \cup {a.target},
              !.latest = [v \in Validators |->
                  IF v \in V \ s.equivocating /\ a.target.epoch > s.latest[v].epoch
                  THEN [epoch |-> a.target.epoch, root |-> a.root] ELSE s.latest[v]]]

(* apply_invalid_payload, from the block it has resolved to: forward through the store.       *)
InvalidateFrom(s, r) ==
    [s EXCEPT !.status = [q \in Roots |->
        IF r \in Chain[q] /\ Chain[q] \ Chain[r] \subseteq s.blocks THEN "Invalid" ELSE @[q]]]

-----------------------------------------------------------------------------
(* get_forkchoice_store. *)
InitStore ==
    [time |-> Slot[Anchor], boost |-> Zero, blocks |-> {Anchor},
     states |-> {Anchor}, pulled |-> {Anchor},
     justified |-> AnchorCheckpoint, finalized |-> AnchorCheckpoint,
     unrealizedJ |-> AnchorCheckpoint, unrealizedF |-> AnchorCheckpoint,
     checkpointStates |-> {AnchorCheckpoint},
     latest |-> [v \in Validators |-> NoVote], equivocating |-> {},
     status |-> [r \in Roots |-> IF r = Anchor THEN "Valid" ELSE "None"]]

Store ==
    [time : Nat, boost : Roots \cup {Zero}, blocks : SUBSET Roots,
     states : SUBSET Roots, pulled : SUBSET Roots,
     justified : Checkpoint, finalized : Checkpoint,
     unrealizedJ : Checkpoint, unrealizedF : Checkpoint,
     checkpointStates : SUBSET Checkpoint,
     latest : [Validators -> [epoch : Nat \cup {-1}, root : Roots \cup {Zero}]],
     equivocating : SUBSET Validators, status : [Roots -> Statuses]]
=============================================================================
