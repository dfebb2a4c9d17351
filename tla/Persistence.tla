---------------------------- MODULE Persistence ----------------------------
(***************************************************************************)
(* What the node keeps on disk and how it starts again from it             *)
(* (pharos-node: import.rs, freezer.rs, startup.rs, checkpoint_sync.rs,    *)
(* main.rs; pharos-storage: db.rs).                                        *)
(*                                                                         *)
(* Importers insert a block into the fork-choice store, compute the head   *)
(* and then write the block with a snapshot of the store.  The freezer     *)
(* moves what is final from the hot to the cold columns and deletes the    *)
(* rest of that range.  A batch of writes is atomic; a crash may come      *)
(* between any two steps and leaves the columns as they are.  Starting up  *)
(* rebuilds the store from the snapshot, the slot index and the blocks,    *)
(* replaying the states that were not written.                             *)
(*                                                                         *)
(* A state is named by the root of its block.  The execution layer stays   *)
(* silent (no payload gets a verdict) and no attestation arrives.          *)
(***************************************************************************)
EXTENDS ForkChoiceStore

CONSTANTS
    Importers,          \* tasks that run import_block
    Fetched,            \* Fetched[i]: the blocks that reach task i
    SyncedAt,           \* the wall clock at the checkpoint sync, in slots
    MaxSlot,            \* bound on the wall clock
    MaxCrashes,         \* bound on the number of crashes
    RestoreInterval,    \* restore_point_interval_epochs
    GenesisStatePath    \* whether --genesis-state-path is given at a restart

ASSUME PersistenceAssumption ==
    /\ Fetched \in [Importers -> SUBSET (Roots \ {Anchor})]
    /\ SyncedAt \in Nat /\ MaxSlot \in Nat /\ MaxCrashes \in Nat
    /\ Slot[Anchor] <= SyncedAt /\ \A r \in Roots : Slot[r] <= MaxSlot
    /\ RestoreInterval \in Nat \ {0} /\ GenesisStatePath \in BOOLEAN

VARIABLES
    disk,       \* the column families
    up,         \* the process runs
    store,      \* the fork-choice Store in memory
    importer,   \* where each importer is in import_block
    freezer,    \* where run_freezer_loop is
    woken,      \* head_rx.changed() of the freezer
    clock,      \* wall clock, in slots since genesis
    crashes

vars == <<disk, up, store, importer, freezer, woken, clock, crashes>>

Idle == [at |-> "idle"]
Slots == 0..MaxSlot

-----------------------------------------------------------------------------
(* The database.  `index` is slot_to_block_root, `summaries` the keys of state-summary,       *)
(* `states` the hot states and `points` the restore points with their cold states.            *)

NoSnapshot == [none |-> TRUE]

EmptyDisk ==
    [hot |-> {}, cold |-> {}, index |-> [k \in Slots |-> Zero], summaries |-> {}, states |-> {},
     points |-> {}, split |-> 0, snapshot |-> NoSnapshot]

Indexed(d, K) == {d.index[k] : k \in K} \ {Zero}
Readable(d) == d.hot \cup d.cold

(* Mutant: the end of the range is left out. *)
GetBlocksBelow(d, from, to) == Indexed(d, from..(to - 1)) \cap d.hot

(* get_blocks_by_range: hot blocks only. *)
GetBlocksByRange(d, from, to) == Indexed(d, from..to) \cap d.hot

(* Mutant: the slot before the range is scanned too. *)
HotBlockRootsFromSplit(d, from, to) == {r \in d.hot : Slot[r] \in (from - 1)..to}

HotBlockRootsInRange(d, from, to) == {r \in d.hot : Slot[r] \in from..to}

(* write_block_transition for an imported block: the slot's entry goes to the last writer.    *)
WriteBlockTransition(d, r, snap) ==
    [d EXCEPT !.hot = @ \cup {r}, !.index[Slot[r]] = r, !.summaries = @ \cup {r},
              !.states = IF Slot[r] % SlotsPerEpoch = 0 THEN @ \cup {r} ELSE @,
              !.snapshot = snap]

(* apply_anchor: one batch, without a summary. *)
ApplyAnchor(d) ==
    LET j == [epoch |-> 0, root |-> Anchor]
    IN  [d EXCEPT !.hot = @ \cup {Anchor}, !.index[Slot[Anchor]] = Anchor, !.states = @ \cup {Anchor},
                  !.split = Slot[Anchor],
                  !.snapshot = [justified |-> j, finalized |-> AnchorCheckpoint,
                                unrealizedJ |-> j, unrealizedF |-> AnchorCheckpoint,
                                boost |-> Zero, time |-> Slot[Anchor],
                                head |-> Anchor, headSlot |-> Slot[Anchor]]]

(* What the persist worker reads under its guard.  `head` was computed before. *)
Snapshot(s, r, head) ==
    [justified |-> s.justified, finalized |-> s.finalized,
     unrealizedJ |-> s.unrealizedJ, unrealizedF |-> s.unrealizedF,
     boost |-> s.boost, time |-> s.time,
     head |-> head, headSlot |-> IF head \in s.blocks THEN Slot[head] ELSE Slot[r]]

-----------------------------------------------------------------------------
(* startup.rs *)

(* inline_replay_to, from a state that is taken for the one of slot `at`: the blocks that the  *)
(* index names are applied in turn, and each must be the child of the one before.  A block     *)
(* that is neither hot nor cold counts as an empty slot.                                       *)
Replays(d, state, at, target) ==
    LET track == Indexed(d, (at + 1)..Slot[target]) \cap Readable(d)
        before(q) == {p \in track \cup {state} : Slot[p] < Slot[q]}
    IN  /\ Slot[state] <= at
        /\ \A q \in track : Parent[q] \in before(q) /\ \A p \in before(q) : Slot[p] <= Slot[Parent[q]]

NearestRestorePoints(d, slot) ==
    LET below == {p \in d.points : Slot[p] <= slot} IN {p \in below : \A q \in below : Slot[q] <= Slot[p]}

(* load_state_hot_or_cold finds the state of r. *)
LoadStateHotOrCold(d, r, upTo) ==
    \/ r \in d.states
    \/ \E p \in NearestRestorePoints(d, upTo) :
          /\ r \in Indexed(d, Slot[p]..upTo) \cap d.summaries
          /\ r = p \/ (Slot[p] < Slot[r] /\ Replays(d, p, Slot[p], r))

(* Mutant: the replay always starts from the state of the anchor. *)
WalkFromAnchor(d, anchor, from, to) ==
    {anchor} \cup {r \in GetBlocksByRange(d, from, to) : r \in d.states \/ Parent[r] = anchor}

(* The walk of rehydrate_fork_choice_store over the slots up to k: the blocks whose state it   *)
(* has found, and the state to replay from with the slot it is taken for.  At a slot that is   *)
(* not above `at` the replay returns the state as it is, which is then the wrong one.          *)
Walk(d, anchor, from, to) ==
    LET blocks == GetBlocksByRange(d, from, to) \ {anchor}
        step(w, k, r) ==
            IF r \in d.states \/ (w.at < k /\ Replays(d, w.state, w.at, r))
            THEN [have |-> w.have \cup {r}, state |-> r, at |-> k]
            ELSE IF w.at >= k THEN [w EXCEPT !.at = k] ELSE w
        walk[k \in (from - 1)..to] ==
            IF k < from THEN [have |-> {anchor}, state |-> anchor, at |-> Slot[anchor]]
            ELSE IF d.index[k] \in blocks THEN step(walk[k - 1], k, d.index[k]) ELSE walk[k - 1]
    IN  walk[to].have

(* What the restart needs: the finalized block and its state, and, for the genesis validators  *)
(* root, either both of them hot or the genesis state on the command line.                     *)
CanRehydrate(d) ==
    LET anchor == d.snapshot.finalized.root
    IN  /\ anchor \in Readable(d)
        /\ LoadStateHotOrCold(d, anchor, IF d.split > Slot[anchor] THEN d.split ELSE Slot[anchor])
        /\ IF anchor \in d.hot THEN anchor \in d.states ELSE GenesisStatePath

RehydrateForkChoiceStore(d) ==
    LET snap == d.snapshot
        anchor == snap.finalized.root
        ahead == snap.headSlot >= d.split
        found == IF ahead THEN Walk(d, anchor, d.split, snap.headSlot) ELSE {anchor}
        blocks == {anchor} \cup IF ahead THEN GetBlocksByRange(d, d.split, snap.headSlot) ELSE {}
    IN  [InitStore EXCEPT
            !.time = snap.time, !.boost = snap.boost,
            !.justified = snap.justified, !.finalized = snap.finalized,
            !.unrealizedJ = snap.unrealizedJ, !.unrealizedF = snap.unrealizedF,
            !.blocks = blocks, !.states = blocks \cap found, !.pulled = {},
            !.checkpointStates = {c \in {snap.justified, snap.finalized} : c.root \in found},
            !.status = [r \in Roots |-> IF r = Anchor THEN "Valid"
                                        ELSE IF r \in blocks THEN "NotValidated" ELSE "None"]]

-----------------------------------------------------------------------------
Init ==
    /\ disk = EmptyDisk
    /\ up = FALSE /\ store = InitStore
    /\ importer = [i \in Importers |-> Idle]
    /\ freezer = Idle /\ woken = FALSE
    /\ clock = SyncedAt /\ crashes = 0

(* The checkpoint sync of a node that has no snapshot. *)
CheckpointSync ==
    /\ ~up /\ disk.snapshot = NoSnapshot
    /\ disk' = ApplyAnchor(disk)
    /\ UNCHANGED <<up, store, importer, freezer, woken, clock, crashes>>

(* main: rehydrate, then on_tick to the wall clock. *)
StartUp ==
    /\ ~up /\ disk.snapshot # NoSnapshot
    /\ CanRehydrate(disk)
    /\ up' = TRUE
    /\ store' = OnTick(RehydrateForkChoiceStore(disk), clock)
    /\ UNCHANGED <<disk, importer, freezer, woken, clock, crashes>>

Crash ==
    /\ up /\ crashes < MaxCrashes
    /\ up' = FALSE /\ crashes' = crashes + 1
    /\ store' = InitStore /\ woken' = FALSE
    /\ importer' = [i \in Importers |-> Idle] /\ freezer' = Idle
    /\ UNCHANGED <<disk, clock>>

Tick ==
    /\ clock < MaxSlot
    /\ clock' = clock + 1
    /\ store' = IF up THEN OnTick(store, clock + 1) ELSE store
    /\ UNCHANGED <<disk, up, importer, freezer, woken, crashes>>

-----------------------------------------------------------------------------
(* import_block *)

Insert(i, r) ==
    /\ up /\ importer[i] = Idle
    /\ r \notin store.blocks /\ AcceptsBlock(store, r)
    /\ store' = OnBlock(store, r, clock, FALSE)
    /\ importer' = [importer EXCEPT ![i] = [at |-> "inserted", root |-> r]]
    /\ UNCHANGED <<disk, up, freezer, woken, clock, crashes>>

(* Step (g); a head that is not in the store is an error. *)
ComputeHead(i) ==
    /\ importer[i].at = "inserted"
    /\ LET head == GetHead(store)
       IN  importer' = [importer EXCEPT ![i] =
               IF head \in store.blocks THEN [at |-> "computed", root |-> @.root, head |-> head] ELSE Idle]
    /\ UNCHANGED <<disk, up, store, freezer, woken, clock, crashes>>

(* Step (h) and the caller's head_tx.send, which wakes the freezer. *)
Persist(i) ==
    /\ importer[i].at = "computed"
    /\ disk' = WriteBlockTransition(disk, importer[i].root,
                                    Snapshot(store, importer[i].root, importer[i].head))
    /\ woken' = TRUE
    /\ importer' = [importer EXCEPT ![i] = Idle]
    /\ UNCHANGED <<up, store, freezer, clock, crashes>>

(* The write fails: the block stays in memory only, and no head is published. *)
PersistFails(i) ==
    /\ importer[i].at = "computed"
    /\ importer' = [importer EXCEPT ![i] = Idle]
    /\ UNCHANGED <<disk, up, store, freezer, woken, clock, crashes>>

-----------------------------------------------------------------------------
(* run_freezer_loop: the range (split, finalized_slot], first as the index names it. *)

FreezerListsCanonical ==
    /\ up /\ woken /\ freezer = Idle
    /\ woken' = FALSE
    /\ LET to == StartSlot(store.finalized.epoch)
       IN  freezer' = IF to <= disk.split THEN Idle
                      ELSE [at |-> "listed", from |-> disk.split + 1, to |-> to,
                            canonical |-> Indexed(disk, (disk.split + 1)..to)]
    /\ UNCHANGED <<disk, up, store, importer, clock, crashes>>

(* Mutant: no restore point in a range that holds none of the interval. *)
RestorePointsWhenDue(d, from, to) ==
    {r \in Indexed(d, from..to) \cap d.states \cap d.summaries : Slot[r] % (RestoreInterval * SlotsPerEpoch) = 0}

RestorePoints(d, from, to) ==
    LET stored == {r \in Indexed(d, from..to) \cap d.states \cap d.summaries : Slot[r] % SlotsPerEpoch = 0}
        due == {r \in stored : Slot[r] % (RestoreInterval * SlotsPerEpoch) = 0}
    IN  IF due # {} THEN due ELSE {r \in stored : \A q \in stored : Slot[q] <= Slot[r]}

(* The other hot blocks of the range are orphans. *)
FreezerListsOrphans ==
    /\ freezer.at = "listed"
    /\ LET moved == freezer.canonical \cap disk.hot
           orphans == HotBlockRootsInRange(disk, freezer.from, freezer.to) \ freezer.canonical
           dropped == {r \in (freezer.canonical \cup orphans) \cap disk.states \cap disk.summaries :
                           Slot[r] % SlotsPerEpoch = 0}
       IN  freezer' = [at |-> "selected", from |-> freezer.from, to |-> freezer.to,
                       moved |-> moved, orphans |-> orphans, states |-> dropped,
                       points |-> RestorePoints(disk, freezer.from, freezer.to)]
    /\ UNCHANGED <<disk, up, store, importer, woken, clock, crashes>>

(* migrate_to_cold: one batch. *)
MigrateToCold ==
    /\ freezer.at = "selected"
    /\ disk' = [disk EXCEPT !.cold = @ \cup freezer.moved, !.points = @ \cup freezer.points,
                            !.hot = (@ \ freezer.moved) \ freezer.orphans,
                            !.summaries = @ \ freezer.orphans, !.states = @ \ freezer.states,
                            !.split = freezer.to]
    /\ freezer' = [at |-> "migrated", to |-> freezer.to, out |-> freezer.moved \cup freezer.orphans]
    /\ UNCHANGED <<up, store, importer, woken, clock, crashes>>

MigrationFails ==
    /\ freezer.at = "selected"
    /\ freezer' = Idle
    /\ UNCHANGED <<disk, up, store, importer, woken, clock, crashes>>

(* Mutant: the states of the evicted blocks stay. *)
EvictBlocksOnly ==
    /\ freezer.at = "migrated"
    /\ LET out == freezer.out \cup {r \in store.blocks : Slot[r] < freezer.to}
       IN  store' = [store EXCEPT !.blocks = @ \ out,
                                  !.status = [r \in Roots |-> IF r \in out THEN "None" ELSE @[r]]]
    /\ freezer' = Idle
    /\ UNCHANGED <<disk, up, importer, woken, clock, crashes>>

EvictFinalizedFromFc ==
    /\ freezer.at = "migrated"
    /\ LET out == freezer.out \cup {r \in store.blocks : Slot[r] < freezer.to}
       IN  store' = IF freezer.out = {} THEN store
                    ELSE [store EXCEPT !.blocks = @ \ out, !.states = @ \ out, !.pulled = @ \ out,
                                       !.status = [r \in Roots |-> IF r \in out THEN "None" ELSE @[r]]]
    /\ freezer' = Idle
    /\ UNCHANGED <<disk, up, importer, woken, clock, crashes>>

-----------------------------------------------------------------------------
Freezing == FreezerListsCanonical \/ FreezerListsOrphans \/ MigrateToCold \/ MigrationFails \/ EvictFinalizedFromFc

Next ==
    \/ CheckpointSync \/ StartUp \/ Crash \/ Tick
    \/ \E i \in Importers : (\E r \in Fetched[i] : Insert(i, r)) \/ ComputeHead(i) \/ Persist(i) \/ PersistFails(i)
    \/ Freezing

Spec == Init /\ [][Next]_vars

-----------------------------------------------------------------------------
(* Properties *)

Snapshots ==
    [justified : Checkpoint, finalized : Checkpoint, unrealizedJ : Checkpoint, unrealizedF : Checkpoint,
     boost : Roots \cup {Zero}, time : Nat, head : Roots, headSlot : Nat]

Disk ==
    [hot : SUBSET Roots, cold : SUBSET Roots, index : [Slots -> Roots \cup {Zero}], summaries : SUBSET Roots,
     states : SUBSET Roots, points : SUBSET Roots, split : Nat, snapshot : Snapshots \cup {NoSnapshot}]

Importing ==
    {Idle} \cup [at : {"inserted"}, root : Roots] \cup [at : {"computed"}, root : Roots, head : Roots]

(* Types; and the fork-choice store never holds a state without its block. *)
TypeOK ==
    /\ disk \in Disk
    /\ up \in BOOLEAN /\ woken \in BOOLEAN /\ clock \in Nat /\ crashes \in 0..MaxCrashes
    /\ store \in Store /\ store.states \subseteq store.blocks
    /\ importer \in [Importers -> Importing]
    /\ freezer.at \in {"idle", "listed", "selected", "migrated"}

(* The blocks that the freezer is about to delete: hot ones of its range that it did not find  *)
(* in the index.                                                                               *)
AtRisk ==
    CASE freezer.at = "listed"   -> {r \in Roots : Slot[r] \in freezer.from..freezer.to} \ freezer.canonical
      [] freezer.at = "selected" -> freezer.orphans
      [] OTHER                   -> {}

Promised == {r \in Readable(disk) : disk.index[Slot[r]] = r} \ AtRisk
FinalEpoch == IF disk.snapshot = NoSnapshot THEN 0 ELSE disk.snapshot.finalized.epoch

ArchiveView == INSTANCE BlockArchive WITH kept <- Readable(disk), promised <- Promised, final <- FinalEpoch

(* The database implements BlockArchive: a block that the slot index names, and that no freezer*)
(* pass in flight has overlooked, stays readable until a rival for its slot is written; moving *)
(* it to the cold columns, failed batches, crashes and restarts included.  The finalized epoch *)
(* of the snapshot never goes back.                                                            *)
Archive == ArchiveView!Spec

SplitNotAhead == disk.split <= StartSlot(disk.snapshot.finalized.epoch)

(* A restart succeeds (rehydrate_fork_choice_store finds the finalized block and its state)    *)
(* whenever the split is not ahead of the snapshot and the index still names the finalized     *)
(* block: pruning the hot states leaves a restore point from which its state can be replayed.  *)
RestartSucceeds ==
    /\ disk.snapshot # NoSnapshot
    /\ SplitNotAhead
    /\ disk.snapshot.finalized.root \in {disk.index[k] : k \in Slots} \cap Readable(disk)
    => CanRehydrate(disk)

(* The blocks after p up to r are exactly those that a replay along the index applies. *)
OnTrack(p, r) ==
    p \in Chain[r] /\ Chain[r] \ Chain[p] = Indexed(disk, (Slot[p] + 1)..Slot[r]) \cap Readable(disk)

(* Only epoch-boundary states are written: a restart replays the others.  Every rebuilt block  *)
(* above a justified block whose state is on disk has its state again, provided that the index *)
(* leads from the one to the other.                                                            *)
StatesRecovered ==
    [][LET base == disk.snapshot.justified.root
       IN  StartUp /\ base \in disk.states =>
              \A r \in store'.blocks :
                  OnTrack(base, r) /\ Chain[r] \ Chain[base] \subseteq store'.blocks => r \in store'.states]_vars

(* The head that the snapshot names is an ancestor of the head after the restart, or that head *)
(* itself, when the split is not ahead, the index leads from the finalized block to it, and    *)
(* nothing but its own state is needed to find it viable (no epoch is justified yet, or it is  *)
(* a block of the current epoch: the unrealized justifications are not written to disk).       *)
HeadSurvivesRestart ==
    [][LET head == disk.snapshot.head
       IN  /\ StartUp /\ SplitNotAhead
           /\ disk.snapshot.justified.root \in Chain[head] /\ OnTrack(disk.snapshot.finalized.root, head)
           /\ store'.justified.epoch = 0 \/ Epoch(Slot[head]) = Epoch(clock)
           => head \in Chain[GetHead(store')]]_vars

(* startup.rs: "justified_checkpoint.epoch >= finalized_checkpoint.epoch >= split_slot /       *)
(* SLOTS_PER_EPOCH", so the walk of a restart starts at or above the split.                    *)
SplitNotAboveFinalized == disk.snapshot # NoSnapshot => SplitNotAhead
=============================================================================
