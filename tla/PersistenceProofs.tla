------------------------- MODULE PersistenceProofs -------------------------
(***************************************************************************)
(* For every tree of blocks, any number of importers, crashes and freezer  *)
(* passes: the types are right, and the database implements BlockArchive.  *)
(*                                                                         *)
(* The finalized epoch on disk can only be compared with the one in memory *)
(* because a restart begins from the disk: IInv says that a running node   *)
(* is never behind its snapshot.                                           *)
(***************************************************************************)
EXTENDS Persistence, ForkChoiceStoreProofs

FreezerOK ==
    /\ freezer.at = "listed" => freezer.to \in Nat
    /\ freezer.at = "selected" =>
           freezer.to \in Nat /\ freezer.moved \subseteq disk.hot /\ freezer.points \subseteq Roots

(* The node in memory is not behind its snapshot. *)
NotBehind ==
    up => disk.snapshot \in Snapshots /\ disk.snapshot.finalized.epoch <= store.finalized.epoch

Parked == ~up => importer = [i \in Importers |-> Idle]

IInv == TypeOK /\ FreezerOK /\ NotBehind /\ Parked

-----------------------------------------------------------------------------
(* Values *)

LEMMA SlotType == ASSUME NEW r \in Roots PROVE Slot[r] \in Nat /\ Slot[r] \in Slots
BY TreeAssumption, PersistenceAssumption DEF Slots

LEMMA NoSnapshotIsNone == NoSnapshot \notin Snapshots
<1> SUFFICES ASSUME NoSnapshot \in Snapshots PROVE FALSE
  OBVIOUS
<1>1. "head" \in DOMAIN NoSnapshot
  BY DEF Snapshots
<1> QED BY <1>1 DEF NoSnapshot

LEMMA StoreFields ==
    ASSUME NEW s \in Store
    PROVE  /\ s.justified \in Checkpoint /\ s.finalized \in Checkpoint
           /\ s.unrealizedJ \in Checkpoint /\ s.unrealizedF \in Checkpoint
           /\ s.boost \in Roots \cup {Zero} /\ s.time \in Nat
           /\ s.blocks \subseteq Roots /\ s.states \subseteq Roots /\ s.finalized.epoch \in Nat
BY DEF Store, Checkpoint

LEMMA SnapshotType ==
    ASSUME NEW s \in Store, NEW r \in Roots, NEW head \in Roots
    PROVE  Snapshot(s, r, head) \in Snapshots /\ Snapshot(s, r, head).finalized = s.finalized
BY StoreFields, SlotType DEF Snapshot, Snapshots

LEMMA DiskFields ==
    ASSUME NEW d \in Disk
    PROVE  /\ d.hot \subseteq Roots /\ d.cold \subseteq Roots /\ d.states \subseteq Roots
           /\ d.summaries \subseteq Roots /\ d.points \subseteq Roots
           /\ d.index \in [Slots -> Roots \cup {Zero}] /\ d.split \in Nat
           /\ d.snapshot \in Snapshots \cup {NoSnapshot}
BY DEF Disk

LEMMA WriteFields ==
    ASSUME NEW d \in Disk, NEW r \in Roots, NEW n \in Snapshots,
           NEW e, e = WriteBlockTransition(d, r, n)
    PROVE  /\ e \in Disk
           /\ e.hot = d.hot \cup {r} /\ e.cold = d.cold /\ e.snapshot = n
           /\ e.index = [d.index EXCEPT ![Slot[r]] = r]
<1> DEFINE x == [d.index EXCEPT ![Slot[r]] = r]
           t == IF Slot[r] % SlotsPerEpoch = 0 THEN d.states \cup {r} ELSE d.states
<1>1. x \in [Slots -> Roots \cup {Zero}] /\ t \in SUBSET Roots
  BY DiskFields, SlotType
<1>2. e = [hot |-> d.hot \cup {r}, cold |-> d.cold, index |-> x, summaries |-> d.summaries \cup {r},
           states |-> t, points |-> d.points, split |-> d.split, snapshot |-> n]
  BY Zenon DEF WriteBlockTransition, Disk
<1> HIDE DEF x, t
<1>3. e \in Disk
  <2>1. d.hot \cup {r} \in SUBSET Roots /\ d.summaries \cup {r} \in SUBSET Roots
    BY DiskFields
  <2> QED BY <1>1, <1>2, <2>1, DiskFields DEF Disk
<1> QED BY <1>2, <1>3 DEF x

LEMMA AnchorFields ==
    ASSUME NEW d \in Disk, NEW e, e = ApplyAnchor(d)
    PROVE  /\ e \in Disk
           /\ e.hot = d.hot \cup {Anchor} /\ e.cold = d.cold
           /\ e.snapshot \in Snapshots
           /\ e.index = [d.index EXCEPT ![Slot[Anchor]] = Anchor]
<1> DEFINE x == [d.index EXCEPT ![Slot[Anchor]] = Anchor]
           j == [epoch |-> 0, root |-> Anchor]
           n == [justified |-> j, finalized |-> AnchorCheckpoint,
                 unrealizedJ |-> j, unrealizedF |-> AnchorCheckpoint,
                 boost |-> Zero, time |-> Slot[Anchor],
                 head |-> Anchor, headSlot |-> Slot[Anchor]]
<1>1. Anchor \in Roots /\ Anchor \in Nat
  BY TreeAssumption
<1>2. j \in Checkpoint
  BY <1>1 DEF Checkpoint
<1> HIDE DEF j
<1>3. n \in Snapshots
  BY <1>1, <1>2, SlotType, AnchorIsCheckpoint DEF Snapshots
<1>4. x \in [Slots -> Roots \cup {Zero}]
  BY <1>1, DiskFields, SlotType
<1>5. e = [hot |-> d.hot \cup {Anchor}, cold |-> d.cold, index |-> x, summaries |-> d.summaries,
           states |-> d.states \cup {Anchor}, points |-> d.points, split |-> Slot[Anchor], snapshot |-> n]
  BY Zenon DEF ApplyAnchor, Disk, j
<1> HIDE DEF x, n
<1>6. e \in Disk
  <2>1. /\ d.hot \cup {Anchor} \in SUBSET Roots /\ d.states \cup {Anchor} \in SUBSET Roots
        /\ Slot[Anchor] \in Nat
    BY <1>1, DiskFields, SlotType
  <2> QED BY <1>3, <1>4, <1>5, <2>1, DiskFields DEF Disk
<1> QED BY <1>3, <1>5, <1>6 DEF x

(* What is rebuilt from the disk is a store at the finality of the snapshot. *)
LEMMA RehydrateType ==
    ASSUME NEW d \in Disk, d.snapshot \in Snapshots, CanRehydrate(d),
           NEW u, u = RehydrateForkChoiceStore(d)
    PROVE  /\ u \in Store /\ u.finalized = d.snapshot.finalized
           /\ u.states \subseteq u.blocks
<1> DEFINE n == d.snapshot
           anchor == n.finalized.root
           ahead == n.headSlot >= d.split
           found == IF ahead THEN Walk(d, anchor, d.split, n.headSlot) ELSE {anchor}
           blocks == {anchor} \cup IF ahead THEN GetBlocksByRange(d, d.split, n.headSlot) ELSE {}
           chk == {c \in {n.justified, n.finalized} : c.root \in found}
           status == [r \in Roots |-> IF r = Anchor THEN "Valid"
                                      ELSE IF r \in blocks THEN "NotValidated" ELSE "None"]
<1>1. /\ n.justified \in Checkpoint /\ n.finalized \in Checkpoint
      /\ n.unrealizedJ \in Checkpoint /\ n.unrealizedF \in Checkpoint
      /\ n.boost \in Roots \cup {Zero} /\ n.time \in Nat
  BY DEF Snapshots
<1>2. anchor \in Roots
  BY DiskFields DEF CanRehydrate, Readable
<1>3. blocks \subseteq Roots
  BY <1>2, DiskFields DEF GetBlocksByRange
<1>4. chk \in SUBSET Checkpoint
  BY <1>1
<1>5. status \in [Roots -> Statuses]
  BY DEF Statuses
<1>6. u = [InitStore EXCEPT
            !.time = n.time, !.boost = n.boost, !.justified = n.justified, !.finalized = n.finalized,
            !.unrealizedJ = n.unrealizedJ, !.unrealizedF = n.unrealizedF,
            !.blocks = blocks, !.states = blocks \cap found, !.pulled = {},
            !.checkpointStates = chk, !.status = status]
  BY DEF RehydrateForkChoiceStore
<1> HIDE DEF n, blocks, found, chk, status
<1>7. InitStore \in Store
  BY InitStoreType
<1>8. u = [time |-> n.time, boost |-> n.boost, blocks |-> blocks, states |-> blocks \cap found,
           pulled |-> {}, justified |-> n.justified, finalized |-> n.finalized,
           unrealizedJ |-> n.unrealizedJ, unrealizedF |-> n.unrealizedF,
           checkpointStates |-> chk, latest |-> InitStore.latest,
           equivocating |-> InitStore.equivocating, status |-> status]
  BY ONLY <1>6, <1>7, Zenon DEF Store
<1>9. u \in Store
  <2>1. blocks \cap found \in SUBSET Roots /\ {} \in SUBSET Roots
    BY <1>3
  <2>2. /\ InitStore.latest \in [Validators -> [epoch : Nat \cup {-1}, root : Roots \cup {Zero}]]
        /\ InitStore.equivocating \in SUBSET Validators
    BY <1>7 DEF Store
  <2> QED BY ONLY <1>1, <1>3, <1>4, <1>5, <1>8, <2>1, <2>2 DEF Store
<1> QED BY <1>8, <1>9 DEF n

LEMMA OnTickKeeps ==
    ASSUME NEW s \in Store, s.states \subseteq s.blocks, NEW t \in Nat, NEW u, u = OnTick(s, t)
    PROVE  /\ u \in Store /\ u.states \subseteq u.blocks
           /\ s.finalized.epoch <= u.finalized.epoch
<1> DEFINE crossed == (s.time + 1)..t
<1>1. u = CrossSlots(s, t, crossed)
  BY DEF OnTick
<1> HIDE DEF crossed
<1>2. /\ u \in Store /\ u.blocks = s.blocks
      /\ u.finalized \in {s.finalized, Promote(s.finalized, s.unrealizedF)}
  BY <1>1, CrossSlotsFields
<1>3. u.states = s.states
  BY <1>1, CrossSlotsStates
<1>4. /\ s.finalized.epoch <= Promote(s.finalized, s.unrealizedF).epoch
      /\ s.finalized.epoch \in Nat
  BY StoreFields, PromoteRises
<1>5. s.finalized.epoch <= u.finalized.epoch
  BY <1>2, <1>4
<1> QED BY <1>2, <1>3, <1>5

LEMMA OnBlockKeeps ==
    ASSUME NEW s \in Store, s.states \subseteq s.blocks, NEW r \in Roots, NEW now, NEW elected,
           NEW u, u = OnBlock(s, r, now, elected)
    PROVE  /\ u \in Store /\ u.states \subseteq u.blocks
           /\ s.finalized.epoch <= u.finalized.epoch
<1> DEFINE f == Promote(s.finalized, Finalized[r])
           g == Promote(f, UnrealizedF[r])
<1>1. /\ u \in Store /\ u.blocks = s.blocks \cup {r}
      /\ u.finalized = f \/ u.finalized = g
  BY OnBlockFields
<1>2. u.states = s.states \cup {r}
  BY OnBlockStates
<1>3. f \in Checkpoint /\ f.epoch \in Nat /\ s.finalized.epoch <= f.epoch /\ s.finalized.epoch \in Nat
  BY StoreFields, BlockCheckpoints, PromoteCheckpoint, PromoteRises, Zenon
<1> HIDE DEF f
<1>4. g.epoch \in Nat /\ f.epoch <= g.epoch
  BY <1>3, BlockCheckpoints, PromoteRises
<1> HIDE DEF g
<1>5. s.finalized.epoch <= f.epoch /\ s.finalized.epoch <= g.epoch
  BY ONLY <1>3, <1>4
<1>6. s.finalized.epoch <= u.finalized.epoch
  BY <1>1, <1>5
<1> QED BY <1>1, <1>2, <1>6

-----------------------------------------------------------------------------
(* The invariant is inductive. *)

LEMMA IdleIsIdle == Idle.at = "idle" /\ Idle \in Importing
BY DEF Idle, Importing

LEMMA InitInv == Init => IInv
<1> SUFFICES ASSUME Init PROVE IInv
  OBVIOUS
<1>1. [k \in Slots |-> Zero] \in [Slots -> Roots \cup {Zero}]
  OBVIOUS
<1>2. disk \in Disk
  BY <1>1 DEF Init, EmptyDisk, Disk
<1>3. store \in Store /\ store.states \subseteq store.blocks
  BY InitStoreType DEF Init, InitStore
<1>4. clock \in Nat /\ crashes \in 0..MaxCrashes
  BY PersistenceAssumption DEF Init
<1>5. freezer.at = "idle" /\ importer \in [Importers -> Importing]
  BY IdleIsIdle DEF Init
<1>6. up = FALSE /\ woken = FALSE /\ importer = [i \in Importers |-> Idle]
  BY DEF Init
<1>7. TypeOK
  BY <1>2, <1>3, <1>4, <1>5, <1>6 DEF TypeOK
<1> QED BY <1>5, <1>6, <1>7 DEF IInv, FreezerOK, NotBehind, Parked

LEMMA CheckpointSyncInv == ASSUME IInv, CheckpointSync PROVE IInv'
<1>1. disk' \in Disk /\ disk.hot \subseteq disk'.hot
  BY AnchorFields, Zenon DEF IInv, TypeOK, CheckpointSync
<1> QED BY <1>1 DEF IInv, TypeOK, FreezerOK, NotBehind, Parked, CheckpointSync

LEMMA StartUpInv == ASSUME IInv, StartUp PROVE IInv'
<1> DEFINE u == RehydrateForkChoiceStore(disk)
<1>1. disk \in Disk /\ disk.snapshot \in Snapshots /\ CanRehydrate(disk) /\ clock \in Nat
  BY DiskFields DEF IInv, TypeOK, StartUp
<1>2. u \in Store /\ u.finalized = disk.snapshot.finalized /\ u.states \subseteq u.blocks
  BY <1>1, RehydrateType
<1>3. store' = OnTick(u, clock)
  BY DEF StartUp
<1> HIDE DEF u
<1>4. /\ store' \in Store /\ store'.states \subseteq store'.blocks
      /\ disk.snapshot.finalized.epoch <= store'.finalized.epoch
  BY <1>1, <1>2, <1>3, OnTickKeeps
<1>5. /\ UNCHANGED <<disk, importer, freezer, woken, clock, crashes>> /\ up' = TRUE
  BY DEF StartUp
<1> QED BY <1>1, <1>4, <1>5 DEF IInv, TypeOK, FreezerOK, NotBehind, Parked

LEMMA CrashInv == ASSUME IInv, Crash PROVE IInv'
<1>1. store' \in Store /\ store'.states \subseteq store'.blocks
  BY InitStoreType DEF Crash, InitStore
<1>2. crashes' \in 0..MaxCrashes
  BY PersistenceAssumption DEF IInv, TypeOK, Crash
<1>3. freezer'.at = "idle" /\ importer' \in [Importers -> Importing]
  BY IdleIsIdle DEF Crash
<1>4. importer' = [i \in Importers |-> Idle] /\ up' = FALSE /\ woken' = FALSE /\ UNCHANGED <<disk, clock>>
  BY DEF Crash
<1> QED BY <1>1, <1>2, <1>3, <1>4, Zenon DEF IInv, TypeOK, FreezerOK, NotBehind, Parked

LEMMA TickInv == ASSUME IInv, Tick PROVE IInv'
<1>1. store \in Store /\ store.states \subseteq store.blocks /\ clock + 1 \in Nat
  BY DEF IInv, TypeOK
<1>2. CASE up
  <2>1. store' = OnTick(store, clock + 1)
    BY <1>2 DEF Tick
  <2>2. /\ store' \in Store /\ store'.states \subseteq store'.blocks
        /\ store.finalized.epoch <= store'.finalized.epoch
    BY <1>1, <2>1, OnTickKeeps
  <2>3. disk.snapshot \in Snapshots /\ disk.snapshot.finalized.epoch <= store.finalized.epoch
    BY <1>2 DEF IInv, NotBehind
  <2>4. /\ disk.snapshot.finalized.epoch \in Nat /\ store.finalized.epoch \in Nat
        /\ store'.finalized.epoch \in Nat
    BY <1>1, <2>2, <2>3, StoreFields DEF Snapshots, Checkpoint
  <2>5. disk.snapshot.finalized.epoch <= store'.finalized.epoch
    BY ONLY <2>2, <2>3, <2>4
  <2>6. UNCHANGED <<disk, up, importer, freezer, woken, crashes>> /\ clock' = clock + 1
    BY DEF Tick
  <2> QED BY <1>1, <2>2, <2>3, <2>5, <2>6 DEF IInv, TypeOK, FreezerOK, NotBehind, Parked
<1>3. CASE ~up
  BY <1>1, <1>3 DEF Tick, IInv, TypeOK, FreezerOK, NotBehind, Parked
<1> QED BY <1>2, <1>3

LEMMA InsertInv ==
    ASSUME IInv, NEW i \in Importers, NEW r \in Roots, Insert(i, r) PROVE IInv'
<1>1. store \in Store /\ store.states \subseteq store.blocks
  BY DEF IInv, TypeOK
<1>2. store' = OnBlock(store, r, clock, FALSE)
  BY DEF Insert
<1>3. /\ store' \in Store /\ store'.states \subseteq store'.blocks
      /\ store.finalized.epoch <= store'.finalized.epoch
  BY <1>1, <1>2, OnBlockKeeps, Zenon
<1>4. disk.snapshot \in Snapshots /\ disk.snapshot.finalized.epoch <= store.finalized.epoch
  BY DEF IInv, NotBehind, Insert
<1>5. /\ disk.snapshot.finalized.epoch \in Nat /\ store.finalized.epoch \in Nat
      /\ store'.finalized.epoch \in Nat
  BY <1>1, <1>3, <1>4, StoreFields DEF Snapshots, Checkpoint
<1>6. disk.snapshot.finalized.epoch <= store'.finalized.epoch
  BY ONLY <1>3, <1>4, <1>5
<1>7. [at |-> "inserted", root |-> r] \in Importing
  BY DEF Importing
<1>8. importer' \in [Importers -> Importing]
  BY <1>7 DEF IInv, TypeOK, Insert
<1>9. up /\ UNCHANGED <<disk, up, freezer, woken, clock, crashes>>
  BY DEF Insert
<1> QED BY <1>3, <1>4, <1>6, <1>8, <1>9 DEF IInv, TypeOK, FreezerOK, NotBehind, Parked

LEMMA ImportingFields ==
    ASSUME NEW x \in Importing
    PROVE  /\ x.at = "inserted" => x.root \in Roots
           /\ x.at = "computed" => x.root \in Roots /\ x.head \in Roots
BY DEF Importing, Idle

(* A step of an importer that leaves the disk and the store alone. *)
LEMMA ImporterMoves ==
    ASSUME IInv, NEW i \in Importers, NEW x \in Importing, importer[i].at # "idle",
           importer' = [importer EXCEPT ![i] = x],
           UNCHANGED <<disk, up, store, freezer, woken, clock, crashes>>
    PROVE  IInv'
<1>1. up
  BY IdleIsIdle DEF IInv, Parked
<1>2. importer' \in [Importers -> Importing]
  BY DEF IInv, TypeOK
<1> QED BY <1>1, <1>2 DEF IInv, TypeOK, FreezerOK, NotBehind, Parked

LEMMA ComputeHeadInv ==
    ASSUME IInv, NEW i \in Importers, ComputeHead(i) PROVE IInv'
<1> DEFINE head == GetHead(store)
           x == IF head \in store.blocks THEN [at |-> "computed", root |-> importer[i].root, head |-> head]
                ELSE Idle
<1>1. importer[i] \in Importing /\ importer[i].at = "inserted" /\ store \in Store
  BY DEF IInv, TypeOK, ComputeHead
<1>2. importer' = [importer EXCEPT ![i] = x]
  BY DEF ComputeHead
<1>3. store.blocks \subseteq Roots
  BY <1>1, StoreFields
<1> HIDE DEF head
<1>4. x \in Importing
  BY <1>1, <1>3, ImportingFields, IdleIsIdle DEF Importing
<1> HIDE DEF x
<1>5. UNCHANGED <<disk, up, store, freezer, woken, clock, crashes>>
  BY DEF ComputeHead
<1> QED BY <1>1, <1>2, <1>4, <1>5, ImporterMoves, Zenon

LEMMA PersistFailsInv ==
    ASSUME IInv, NEW i \in Importers, PersistFails(i) PROVE IInv'
BY IdleIsIdle, ImporterMoves, Zenon DEF PersistFails

(* The block and the finality of memory are on disk, which is not behind what was there. *)
LEMMA PersistFacts ==
    ASSUME IInv, NEW i \in Importers, Persist(i), NEW r, r = importer[i].root
    PROVE  /\ r \in Roots /\ up /\ disk' \in Disk /\ disk'.snapshot \in Snapshots
           /\ disk'.snapshot.finalized = store.finalized
           /\ disk'.hot = disk.hot \cup {r} /\ disk'.cold = disk.cold
           /\ disk'.index = [disk.index EXCEPT ![Slot[r]] = r]
<1>1. importer[i] \in Importing /\ importer[i].at = "computed" /\ store \in Store /\ disk \in Disk
  BY DEF IInv, TypeOK, Persist
<1>2. r \in Roots /\ importer[i].head \in Roots
  BY <1>1, ImportingFields
<1> DEFINE n == Snapshot(store, r, importer[i].head)
<1>3. n \in Snapshots /\ n.finalized = store.finalized
  BY <1>1, <1>2, SnapshotType
<1>4. disk' = WriteBlockTransition(disk, r, n)
  BY DEF Persist
<1>5. up
  BY <1>1, IdleIsIdle DEF IInv, Parked
<1> HIDE DEF n
<1> QED BY <1>1, <1>2, <1>3, <1>4, <1>5, WriteFields

LEMMA PersistInv ==
    ASSUME IInv, NEW i \in Importers, Persist(i) PROVE IInv'
<1>1. /\ up /\ disk' \in Disk /\ disk'.snapshot \in Snapshots /\ disk'.snapshot.finalized = store.finalized
      /\ disk.hot \subseteq disk'.hot
  BY PersistFacts, Zenon
<1>2. store.finalized.epoch \in Nat /\ store \in Store
  BY StoreFields DEF IInv, TypeOK
<1>3. importer' \in [Importers -> Importing]
  BY IdleIsIdle DEF IInv, TypeOK, Persist
<1>4. woken' = TRUE /\ UNCHANGED <<up, store, freezer, clock, crashes>>
  BY DEF Persist
<1>5. disk'.snapshot.finalized.epoch <= store'.finalized.epoch
  BY <1>1, <1>2, <1>4
<1> QED BY <1>1, <1>3, <1>4, <1>5 DEF IInv, TypeOK, FreezerOK, NotBehind, Parked

LEMMA FinalizedSlotType ==
    ASSUME NEW s \in Store PROVE StartSlot(s.finalized.epoch) \in Nat
BY StoreFields, EpochAssumption DEF StartSlot

LEMMA FreezerListsCanonicalInv == ASSUME IInv, FreezerListsCanonical PROVE IInv'
<1> DEFINE to == StartSlot(store.finalized.epoch)
<1>1. to \in Nat
  BY FinalizedSlotType DEF IInv, TypeOK
<1>2. freezer' = IF to <= disk.split THEN Idle
                 ELSE [at |-> "listed", from |-> disk.split + 1, to |-> to,
                       canonical |-> Indexed(disk, (disk.split + 1)..to)]
  BY DEF FreezerListsCanonical
<1> HIDE DEF to
<1>3. freezer'.at = "idle" \/ (freezer'.at = "listed" /\ freezer'.to \in Nat)
  BY <1>1, <1>2, IdleIsIdle
<1>4. woken' = FALSE /\ UNCHANGED <<disk, up, store, importer, clock, crashes>>
  BY DEF FreezerListsCanonical
<1> QED BY <1>3, <1>4, Zenon DEF IInv, TypeOK, FreezerOK, NotBehind, Parked

LEMMA FreezerListsOrphansInv == ASSUME IInv, FreezerListsOrphans PROVE IInv'
<1>1. disk \in Disk
  BY DEF IInv, TypeOK
<1>2. RestorePoints(disk, freezer.from, freezer.to) \subseteq Roots
  BY <1>1, DiskFields DEF RestorePoints
<1>3. /\ freezer'.at = "selected" /\ freezer'.to = freezer.to /\ freezer'.moved \subseteq disk.hot
      /\ freezer'.points = RestorePoints(disk, freezer.from, freezer.to)
  BY DEF FreezerListsOrphans
<1>4. freezer'.moved \subseteq disk.hot /\ freezer'.points \subseteq Roots /\ freezer'.to \in Nat
  BY <1>1, <1>2, <1>3, DiskFields DEF IInv, FreezerOK, FreezerListsOrphans
<1>5. UNCHANGED <<disk, up, store, importer, woken, clock, crashes>>
  BY Zenon DEF FreezerListsOrphans
<1> QED BY <1>3, <1>4, <1>5 DEF IInv, TypeOK, FreezerOK, NotBehind, Parked

Migrated(d, f) ==
    [d EXCEPT !.cold = @ \cup f.moved, !.points = @ \cup f.points, !.hot = (@ \ f.moved) \ f.orphans,
              !.summaries = @ \ f.orphans, !.states = @ \ f.states, !.split = f.to]

LEMMA MigrateToColdFields ==
    ASSUME NEW d \in Disk, NEW f, f.moved \subseteq d.hot, f.points \subseteq Roots, f.to \in Nat,
           NEW e, e = Migrated(d, f)
    PROVE  /\ e \in Disk /\ e.cold = d.cold \cup f.moved /\ e.hot = (d.hot \ f.moved) \ f.orphans
           /\ e.index = d.index /\ e.snapshot = d.snapshot
<1> DEFINE hot == (d.hot \ f.moved) \ f.orphans
           cold == d.cold \cup f.moved
           summaries == d.summaries \ f.orphans
           states == d.states \ f.states
           points == d.points \cup f.points
<1>1. e = [hot |-> hot, cold |-> cold, index |-> d.index, summaries |-> summaries, states |-> states,
           points |-> points, split |-> f.to, snapshot |-> d.snapshot]
  BY Zenon DEF Disk, Migrated
<1>2. /\ hot \in SUBSET Roots /\ cold \in SUBSET Roots /\ summaries \in SUBSET Roots
      /\ states \in SUBSET Roots /\ points \in SUBSET Roots
  BY DiskFields
<1>3. /\ d.index \in [Slots -> Roots \cup {Zero}] /\ f.to \in Nat
      /\ d.snapshot \in Snapshots \cup {NoSnapshot}
  BY DiskFields
<1>4. /\ e.cold = cold /\ e.hot = hot /\ e.index = d.index /\ e.snapshot = d.snapshot
  BY <1>1
<1>5. e \in Disk
  <2> HIDE DEF hot, cold, summaries, states, points
  <2> QED BY ONLY <1>1, <1>2, <1>3 DEF Disk
<1> QED BY <1>4, <1>5

LEMMA MigrateToColdFacts ==
    ASSUME IInv, MigrateToCold
    PROVE  /\ disk' \in Disk /\ disk'.cold = disk.cold \cup freezer.moved
           /\ disk'.hot = (disk.hot \ freezer.moved) \ freezer.orphans
           /\ disk'.index = disk.index /\ disk'.snapshot = disk.snapshot
<1>1. /\ disk \in Disk /\ freezer.moved \subseteq disk.hot /\ freezer.points \subseteq Roots
      /\ freezer.to \in Nat
  BY DEF IInv, TypeOK, FreezerOK, MigrateToCold
<1>2. disk' = Migrated(disk, freezer)
  BY DEF MigrateToCold, Migrated
<1> QED BY <1>1, <1>2, MigrateToColdFields

LEMMA MigrateToColdInv == ASSUME IInv, MigrateToCold PROVE IInv'
<1>1. disk' \in Disk /\ disk'.snapshot = disk.snapshot
  BY MigrateToColdFacts
<1>2. freezer'.at = "migrated" /\ UNCHANGED <<up, store, importer, woken, clock, crashes>>
  BY DEF MigrateToCold
<1> QED BY <1>1, <1>2 DEF IInv, TypeOK, FreezerOK, NotBehind, Parked

LEMMA MigrationFailsInv == ASSUME IInv, MigrationFails PROVE IInv'
<1>1. freezer'.at = "idle" /\ UNCHANGED <<disk, up, store, importer, woken, clock, crashes>>
  BY IdleIsIdle DEF MigrationFails
<1> QED BY <1>1 DEF IInv, TypeOK, FreezerOK, NotBehind, Parked

(* Eviction from memory leaves a store whose states have their blocks. *)
Evicted(s, out) ==
    [s EXCEPT !.blocks = @ \ out, !.states = @ \ out, !.pulled = @ \ out,
              !.status = [r \in Roots |-> IF r \in out THEN "None" ELSE @[r]]]

LEMMA EvictType ==
    ASSUME NEW s \in Store, s.states \subseteq s.blocks, NEW out, NEW u, u = Evicted(s, out)
    PROVE  u \in Store /\ u.states \subseteq u.blocks /\ u.finalized = s.finalized
<1> DEFINE t == [r \in Roots |-> IF r \in out THEN "None" ELSE s.status[r]]
<1> DEFINE blocks == s.blocks \ out
           states == s.states \ out
           pulled == s.pulled \ out
<1>0. u = [s EXCEPT !.blocks = blocks, !.states = states, !.pulled = pulled, !.status = t]
  BY DEF Evicted
<1>1. u.blocks = blocks /\ u.states = states /\ u.finalized = s.finalized
  <2> HIDE DEF blocks, states, pulled, t
  <2> QED BY ONLY <1>0, s \in Store DEF Store
<1>2. blocks \in SUBSET Roots /\ states \in SUBSET Roots /\ pulled \in SUBSET Roots
  BY DEF Store
<1>3. t \in [Roots -> Statuses]
  BY DEF Store, Statuses
<1>4. u \in Store
  <2> HIDE DEF blocks, states, pulled, t
  <2> QED BY ONLY <1>0, <1>2, <1>3, s \in Store, Zenon DEF Store
<1> QED BY <1>1, <1>4

LEMMA EvictInv == ASSUME IInv, EvictFinalizedFromFc PROVE IInv'
<1> DEFINE out == freezer.out \cup {r \in store.blocks : Slot[r] < freezer.to}
           u == Evicted(store, out)
<1>1. store' = store \/ store' = u
  BY DEF EvictFinalizedFromFc, Evicted
<1>2. store \in Store /\ store.states \subseteq store.blocks
  BY DEF IInv, TypeOK
<1> HIDE DEF out
<1>3. u \in Store /\ u.states \subseteq u.blocks /\ u.finalized = store.finalized
  BY <1>2, EvictType
<1> HIDE DEF u
<1>4. store' \in Store /\ store'.states \subseteq store'.blocks /\ store'.finalized = store.finalized
  BY <1>1, <1>2, <1>3
<1>5. freezer'.at = "idle" /\ UNCHANGED <<disk, up, importer, woken, clock, crashes>>
  BY IdleIsIdle DEF EvictFinalizedFromFc
<1> QED BY <1>4, <1>5 DEF IInv, TypeOK, FreezerOK, NotBehind, Parked

LEMMA StutterInv == ASSUME IInv, UNCHANGED vars PROVE IInv'
BY DEF IInv, TypeOK, FreezerOK, NotBehind, Parked, vars

LEMMA Invariance == IInv /\ [Next]_vars => IInv'
<1> SUFFICES ASSUME IInv, [Next]_vars PROVE IInv'
  OBVIOUS
<1>1. CASE CheckpointSync \/ StartUp \/ Crash \/ Tick
  BY <1>1, CheckpointSyncInv, StartUpInv, CrashInv, TickInv
<1>2. CASE \E i \in Importers : (\E r \in Fetched[i] : Insert(i, r))
  BY <1>2, InsertInv, PersistenceAssumption
<1>3. CASE \E i \in Importers : ComputeHead(i) \/ Persist(i) \/ PersistFails(i)
  BY <1>3, ComputeHeadInv, PersistInv, PersistFailsInv
<1>4. CASE Freezing
  BY <1>4, FreezerListsCanonicalInv, FreezerListsOrphansInv, MigrateToColdInv, MigrationFailsInv, EvictInv
     DEF Freezing
<1>5. CASE UNCHANGED vars
  BY <1>5, StutterInv
<1> QED BY <1>1, <1>2, <1>3, <1>4, <1>5 DEF Next

(* Types, and no state without its block in the store, whatever crashes and restarts the disk  *)
(* goes through.                                                                               *)
THEOREM TypeCorrect == Spec => []TypeOK
<1>1. IInv => TypeOK
  BY DEF IInv
<1> QED BY <1>1, InitInv, Invariance, PTL DEF Spec

-----------------------------------------------------------------------------
(* Every step of the database is a step of BlockArchive, or changes nothing it sees. *)

LEMMA RootsAreNotZero == ASSUME NEW r \in Roots PROVE r # Zero
BY TreeAssumption

LEMMA WriteStep ==
    ASSUME disk \in Disk, NEW r \in Roots, freezer' = freezer,
           disk'.hot = disk.hot \cup {r}, disk'.cold = disk.cold,
           disk'.index = [disk.index EXCEPT ![Slot[r]] = r],
           FinalEpoch' \in Nat, FinalEpoch <= FinalEpoch'
    PROVE  ArchiveView!Next
<1>1. Readable(disk') = Readable(disk) \cup {r} /\ Readable(disk) \subseteq Roots
  BY DiskFields DEF Readable
<1>2. AtRisk' = AtRisk
  BY DEF AtRisk
<1>3. ASSUME NEW q \in Roots PROVE disk'.index[Slot[q]] = IF Slot[q] = Slot[r] THEN r ELSE disk.index[Slot[q]]
  BY DiskFields, SlotType
<1>4. Promised' = {q \in Readable(disk') : disk'.index[Slot[q]] = q} \ AtRisk
  BY <1>2 DEF Promised
<1>5. ASSUME NEW q \in Promised, q \notin ArchiveView!Rivals(r) PROVE q \in Promised'
  <2>1. q \in Roots /\ q \in Readable(disk) /\ disk.index[Slot[q]] = q /\ q \notin AtRisk
    BY <1>1, <1>5 DEF Promised
  <2>2. q = r \/ Slot[q] # Slot[r]
    BY <1>5, <2>1 DEF ArchiveView!Rivals
  <2>3. disk'.index[Slot[q]] = q
    BY <1>3, <2>1, <2>2
  <2> QED BY <1>1, <1>4, <2>1, <2>3
<1>6. ASSUME NEW q \in Promised', q # r PROVE q \in Promised
  <2>1. q \in Readable(disk) /\ disk'.index[Slot[q]] = q /\ q \notin AtRisk /\ q \in Roots
    BY <1>1, <1>4, <1>6
  <2>2. disk.index[Slot[q]] = q
    BY <1>3, <1>6, <2>1
  <2> QED BY <2>1, <2>2 DEF Promised
<1>7. ArchiveView!Write(r)
  BY <1>1, <1>5, <1>6 DEF ArchiveView!Write
<1> QED BY <1>7 DEF ArchiveView!Next

LEMMA CheckpointSyncStep == ASSUME IInv, CheckpointSync PROVE ArchiveView!Next
<1>1. disk \in Disk /\ disk' = ApplyAnchor(disk) /\ disk.snapshot = NoSnapshot /\ freezer' = freezer
  BY DEF IInv, TypeOK, CheckpointSync
<1>2. /\ disk'.hot = disk.hot \cup {Anchor} /\ disk'.cold = disk.cold /\ disk'.snapshot \in Snapshots
      /\ disk'.index = [disk.index EXCEPT ![Slot[Anchor]] = Anchor]
  BY <1>1, AnchorFields
<1>3. FinalEpoch = 0 /\ FinalEpoch' = disk'.snapshot.finalized.epoch
  BY <1>1, <1>2, NoSnapshotIsNone DEF FinalEpoch
<1>4. disk'.snapshot.finalized.epoch \in Nat
  BY <1>2 DEF Snapshots, Checkpoint
<1>5. Anchor \in Roots
  BY TreeAssumption
<1>6. FinalEpoch' \in Nat /\ FinalEpoch <= FinalEpoch'
  BY <1>3, <1>4
<1> QED BY <1>1, <1>2, <1>5, <1>6, WriteStep

LEMMA PersistStep == ASSUME IInv, NEW i \in Importers, Persist(i) PROVE ArchiveView!Next
<1> DEFINE r == importer[i].root
<1>1. /\ r \in Roots /\ up /\ disk'.snapshot \in Snapshots
      /\ disk'.snapshot.finalized = store.finalized
      /\ disk'.hot = disk.hot \cup {r} /\ disk'.cold = disk.cold
      /\ disk'.index = [disk.index EXCEPT ![Slot[r]] = r]
  BY PersistFacts
<1> HIDE DEF r
<1>2. disk.snapshot \in Snapshots /\ disk.snapshot.finalized.epoch <= store.finalized.epoch
  BY <1>1 DEF IInv, NotBehind
<1>3. FinalEpoch = disk.snapshot.finalized.epoch /\ FinalEpoch' = store.finalized.epoch
  BY <1>1, <1>2, NoSnapshotIsNone DEF FinalEpoch
<1>4. store.finalized.epoch \in Nat /\ disk \in Disk /\ freezer' = freezer
  BY StoreFields DEF IInv, TypeOK, Persist
<1>5. FinalEpoch' \in Nat /\ FinalEpoch <= FinalEpoch'
  BY <1>2, <1>3, <1>4
<1> QED BY <1>1, <1>4, <1>5, WriteStep

(* A step that only changes what is at risk. *)
LEMMA RiskStep ==
    ASSUME disk' = disk, Promised \cap AtRisk' = {} PROVE ArchiveView!Next
<1>1. Readable(disk') = Readable(disk) /\ FinalEpoch' = FinalEpoch
  BY DEF Readable, FinalEpoch
<1>2. Promised' = {r \in Readable(disk) : disk.index[Slot[r]] = r} \ AtRisk'
  BY <1>1 DEF Promised
<1>3. Promised \subseteq Promised' /\ Promised' \subseteq Readable(disk)
  BY <1>2 DEF Promised
<1> QED BY <1>1, <1>3 DEF ArchiveView!Next, ArchiveView!Reclaim

(* A pass that has listed the index never deletes a block that the index named then. *)
LEMMA FreezerListsCanonicalStep == ASSUME IInv, FreezerListsCanonical PROVE ArchiveView!Next
<1> DEFINE to == StartSlot(store.finalized.epoch)
           K == (disk.split + 1)..to
<1>1. to \in Nat /\ disk \in Disk
  BY FinalizedSlotType DEF IInv, TypeOK
<1>2. freezer' = (IF to <= disk.split THEN Idle
                  ELSE [at |-> "listed", from |-> disk.split + 1, to |-> to, canonical |-> Indexed(disk, K)])
      /\ disk' = disk
  BY DEF FreezerListsCanonical
<1> HIDE DEF to
<1>3. ASSUME NEW q \in Promised, q \in AtRisk' PROVE FALSE
  <2>1. q \in Roots /\ disk.index[Slot[q]] = q
    BY <1>1, <1>3, DiskFields DEF Promised, Readable
  <2>2. CASE to <= disk.split
    BY <1>2, <1>3, <2>2, IdleIsIdle DEF AtRisk
  <2>3. CASE ~(to <= disk.split)
    <3>1. /\ freezer'.at = "listed" /\ freezer'.from = disk.split + 1 /\ freezer'.to = to
          /\ freezer'.canonical = Indexed(disk, K)
      BY <1>2, <2>3
    <3>2. Slot[q] \in K /\ q \notin Indexed(disk, K)
      BY <1>3, <3>1 DEF AtRisk
    <3>3. q \in Indexed(disk, K)
      BY <2>1, <3>2, RootsAreNotZero DEF Indexed
    <3> QED BY <3>2, <3>3
  <2> QED BY <2>2, <2>3
<1> QED BY <1>2, <1>3, RiskStep

LEMMA FreezerListsOrphansStep == ASSUME IInv, FreezerListsOrphans PROVE ArchiveView!Next
<1>1. disk \in Disk /\ disk' = disk /\ freezer.at = "listed"
  BY DEF IInv, TypeOK, FreezerListsOrphans
<1>2. /\ freezer'.at = "selected"
      /\ freezer'.orphans = HotBlockRootsInRange(disk, freezer.from, freezer.to) \ freezer.canonical
  BY DEF FreezerListsOrphans
<1>3. AtRisk' = freezer'.orphans
  BY <1>2 DEF AtRisk
<1>4. AtRisk = {r \in Roots : Slot[r] \in freezer.from..freezer.to} \ freezer.canonical
  BY <1>1 DEF AtRisk
<1>5. AtRisk' \subseteq AtRisk
  BY <1>1, <1>2, <1>3, <1>4, DiskFields DEF HotBlockRootsInRange
<1>6. Promised \cap AtRisk' = {}
  BY <1>5 DEF Promised
<1> QED BY <1>1, <1>6, RiskStep

LEMMA MigrateToColdStep == ASSUME IInv, MigrateToCold PROVE ArchiveView!Next
<1>1. /\ disk'.cold = disk.cold \cup freezer.moved
      /\ disk'.hot = (disk.hot \ freezer.moved) \ freezer.orphans
      /\ disk'.index = disk.index /\ disk'.snapshot = disk.snapshot
  BY MigrateToColdFacts
<1>2. freezer.at = "selected" /\ freezer'.at = "migrated" /\ freezer.moved \subseteq disk.hot
  BY DEF IInv, FreezerOK, MigrateToCold
<1>3. AtRisk = freezer.orphans /\ AtRisk' = {}
  BY <1>2 DEF AtRisk
<1>4. /\ Readable(disk') \subseteq Readable(disk)
      /\ Readable(disk) \ freezer.orphans \subseteq Readable(disk')
  BY <1>1, <1>2 DEF Readable
<1>5. FinalEpoch' = FinalEpoch
  BY <1>1 DEF FinalEpoch
<1>6. Promised' = {r \in Readable(disk') : disk.index[Slot[r]] = r}
  BY <1>1, <1>3 DEF Promised
<1>7. Promised \subseteq Promised' /\ Promised' \subseteq Readable(disk')
  BY <1>3, <1>4, <1>6 DEF Promised
<1> QED BY <1>4, <1>5, <1>7 DEF ArchiveView!Next, ArchiveView!Reclaim

(* The pass ends, by a failed batch, an eviction or a crash. *)
LEMMA PassEndsStep == ASSUME disk' = disk, freezer' = Idle PROVE ArchiveView!Next
<1>1. AtRisk' = {}
  BY IdleIsIdle DEF AtRisk
<1> QED BY <1>1, RiskStep

LEMMA UnseenStep == ASSUME disk' = disk, freezer' = freezer PROVE UNCHANGED ArchiveView!vars
BY DEF ArchiveView!vars, Promised, AtRisk, FinalEpoch, Readable

LEMMA ArchiveInit == Init => ArchiveView!Init
BY DEF Init, EmptyDisk, ArchiveView!Init, Readable, Promised, FinalEpoch

LEMMA ArchiveStep == IInv /\ [Next]_vars => [ArchiveView!Next]_(ArchiveView!vars)
<1> SUFFICES ASSUME IInv, [Next]_vars PROVE ArchiveView!Next \/ UNCHANGED ArchiveView!vars
  OBVIOUS
<1>1. CASE CheckpointSync
  BY <1>1, CheckpointSyncStep
<1>2. CASE StartUp \/ Tick \/ UNCHANGED vars
  BY <1>2, UnseenStep DEF StartUp, Tick, vars
<1>3. CASE \E i \in Importers : Persist(i)
  BY <1>3, PersistStep
<1>4. CASE \E i \in Importers : (\E r \in Fetched[i] : Insert(i, r)) \/ ComputeHead(i) \/ PersistFails(i)
  BY <1>4, UnseenStep, Zenon DEF Insert, ComputeHead, PersistFails
<1>5. CASE Crash \/ MigrationFails \/ EvictFinalizedFromFc
  BY <1>5, PassEndsStep DEF Crash, MigrationFails, EvictFinalizedFromFc
<1>6. CASE FreezerListsCanonical \/ FreezerListsOrphans \/ MigrateToCold
  BY <1>6, FreezerListsCanonicalStep, FreezerListsOrphansStep, MigrateToColdStep
<1> QED BY <1>1, <1>2, <1>3, <1>4, <1>5, <1>6 DEF Next, Freezing

(* The database implements BlockArchive: what the slot index names and no pass in flight has   *)
(* overlooked stays readable until its slot is written again, and the finalized epoch on disk  *)
(* does not go back; for any tree, any importers and any number of crashes.                    *)
THEOREM ImplementsArchive == Spec => Archive
BY InitInv, Invariance, ArchiveInit, ArchiveStep, PTL DEF Spec, Archive, ArchiveView!Spec
=============================================================================
