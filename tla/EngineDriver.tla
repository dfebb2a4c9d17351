---------------------------- MODULE EngineDriver ----------------------------
(***************************************************************************)
(* How the verdicts of the execution layer reach the fork-choice store and *)
(* how the node tells it about its head (pharos-node: import.rs,           *)
(* engine_driver.rs, freezer.rs; pharos-fork-choice: optimistic.rs).       *)
(*                                                                         *)
(* Importers (gossip, lookup and backfill tasks) run import_block side by  *)
(* side, push payloads into a bounded channel and publish head changes in  *)
(* a watch channel.  The driver takes from both, calls the execution layer *)
(* and applies the answer.  The freezer wakes on the watch, migrates what  *)
(* is final and evicts it from the store.  Locks are held for one action;  *)
(* between two actions of a task every other task may run.                 *)
(*                                                                         *)
(* The node is past the merge and behind the wall clock: every block has a *)
(* payload, and store.time is Now throughout.                              *)
(***************************************************************************)
EXTENDS ForkChoiceStore, Sequences

CONSTANTS
    Now,            \* slot of store.time
    Importers,      \* tasks that run import_block
    Fetched,        \* Fetched[i]: the blocks that reach task i
    QueueSize,      \* capacity of payload_tx (64)
    Bad             \* blocks whose own payload the execution layer finds INVALID

ASSUME DriverAssumption ==
    /\ Now \in Nat /\ \A r \in Roots : Slot[r] <= Now
    /\ Fetched \in [Importers -> SUBSET (Roots \ {Anchor})]
    /\ QueueSize \in Nat \ {0} /\ Bad \subseteq Roots \ {Anchor} /\ Exec = Roots

VARIABLES
    store,      \* the fork-choice Store
    importer,   \* where each importer is in import_block
    queue,      \* payload_tx / payload_rx
    watch,      \* head_tx: the last HeadChange, and who has not seen it yet
    driver,     \* where run_engine_driver_loop is
    disk,       \* hot blocks on disk and the split slot of the freezer
    evicting    \* what the freezer is about to evict

vars == <<store, importer, queue, watch, driver, disk, evicting>>

NoChange == [head |-> Zero, safe |-> Zero, finalized |-> Zero]
Idle == [at |-> "idle"]
Null == -1

-----------------------------------------------------------------------------
(* The execution layer: a payload is INVALID when it or an ancestor is, and the latest valid   *)
(* hash of the answer, if it has one, is that of the last ancestor that is not.                *)

Condemned(r) == r \in Roots /\ Chain[r] \cap Bad # {}

LatestValidHash(r) ==
    {q \in Chain[r] : ~Condemned(q) /\ \E c \in Chain[r] : Parent[c] = q /\ Condemned(c)}

-----------------------------------------------------------------------------
(* optimistic.rs *)

IsOptimistic(s, r) == r \in s.blocks \cap Exec /\ s.status[r] # "Valid"

(* The blocks from r toward genesis, as far as the store has them without a gap. *)
WalkBack(s, r) == {q \in Chain[r] : q \in s.blocks /\ Chain[r] \ Chain[q] \subseteq s.blocks}

LatestVerifiedAncestor(s, root) ==
    LET up[r \in Roots \cup {Parent[Anchor]}] ==
            IF ~IsOptimistic(s, r) \/ Parent[r] = Zero THEN r
            ELSE IF Parent[r] \notin s.blocks THEN s.finalized.root
            ELSE up[Parent[r]]
    IN  up[root]

(* Mutant: the block with the latest valid hash is taken for the invalid one. *)
ResolveInvalidBlockAtMatch(s, r, lvh) == IF lvh \in WalkBack(s, r) THEN lvh ELSE r

(* A hash is named by the root of its block; it is Null when the answer has none. *)
ResolveInvalidBlock(s, r, lvh) ==
    LET walk == WalkBack(s, r)
        enabled == walk \cap Exec
    IN  IF lvh = Zero /\ enabled # {} THEN CHOOSE q \in enabled : Chain[q] \cap enabled = {q}
        ELSE IF lvh \in walk \ {r} THEN CHOOSE q \in walk : Parent[q] = lvh
        ELSE r

MarkPayloadStatus(s, r, verdict) == [s EXCEPT !.status[r] = verdict]
MarkPayloadStatusIfAbsent(s, r) == [s EXCEPT !.status[r] = IF @ = "None" THEN "NotValidated" ELSE @]

(* Stops at the first block that has a verdict, root itself included. *)
PromoteValidAncestors(s, root) ==
    LET undecided == {r \in Roots : s.status[r] \in {"None", "NotValidated"}}
        reached(r) == /\ r \in Chain[root] /\ Chain[root] \ Chain[r] \subseteq s.blocks
                      /\ {r} \cup (Chain[root] \ Chain[r]) \subseteq undecided
    IN  [s EXCEPT !.status = [r \in Roots |-> IF reached(r) THEN "Valid" ELSE @[r]]]

-----------------------------------------------------------------------------
(* engine_driver.rs: what forkchoiceUpdated is told. *)

(* A block that the store does not have has the zero hash. *)
ExecutionBlockHashAtRoot(s, r) == IF r \in s.blocks \cap Exec THEN r ELSE Zero

ComputeSafeBlockHash(s) ==
    LET safe == GetCheckpointBlock(s, GetHead(s), s.justified.epoch)
    IN  ExecutionBlockHashAtRoot(s, LatestVerifiedAncestor(s, safe))

(* Mutant: the finalized root is taken as it is, verified or not. *)
ComputeFinalizedBlockHashBare(s) == ExecutionBlockHashAtRoot(s, s.finalized.root)

ComputeFinalizedBlockHash(s) ==
    ExecutionBlockHashAtRoot(s, LatestVerifiedAncestor(s, s.finalized.root))

HeadChange(s, head) ==
    [head |-> head, safe |-> ComputeSafeBlockHash(s), finalized |-> ComputeFinalizedBlockHash(s)]

(* watch::Sender::send: every receiver has something to see again. *)
Send(change) == [change |-> change, driver |-> TRUE, freezer |-> TRUE, unanswered |-> FALSE]

-----------------------------------------------------------------------------
Init ==
    /\ store = OnTick(InitStore, Now)
    /\ importer = [i \in Importers |-> Idle]
    /\ queue = <<>>
    /\ watch = [Send(NoChange) EXCEPT !.driver = FALSE, !.freezer = FALSE]
    /\ driver = Idle
    /\ disk = [hot |-> {Anchor}, split |-> Slot[Anchor]]
    /\ evicting = {}

(* import_block.  A block that the state transition refuses leaves nothing behind, so only    *)
(* the other case is a step: the execution layer answered VALID or SYNCING.                   *)
StartImport(i, r) ==
    /\ importer[i] = Idle
    /\ Parent[r] \in store.states /\ r \notin store.blocks
    /\ importer' = [importer EXCEPT ![i] = [at |-> "checked", root |-> r]]
    /\ UNCHANGED <<store, queue, watch, driver, disk, evicting>>

RunOnBlock(i) ==
    /\ importer[i].at = "checked"
    /\ LET r == importer[i].root
       IN  IF AcceptsBlock(store, r)
           THEN /\ store' = OnBlock(store, r, Now, FALSE)
                /\ importer' = [importer EXCEPT ![i] = [at |-> "inserted", root |-> r]]
           ELSE importer' = [importer EXCEPT ![i] = Idle] /\ UNCHANGED store
    /\ UNCHANGED <<queue, watch, driver, disk, evicting>>

(* Mutant: the channel has no bound. *)
SendPayloadUnbounded(i) ==
    /\ importer[i].at = "inserted"
    /\ queue' = Append(queue, importer[i].root)
    /\ importer' = [importer EXCEPT ![i].at = "sent"]
    /\ UNCHANGED <<store, watch, driver, disk, evicting>>

(* payload_tx.try_send drops the payload when the channel is full. *)
SendPayload(i) ==
    /\ importer[i].at = "inserted"
    /\ queue' = IF Len(queue) < QueueSize THEN Append(queue, importer[i].root) ELSE queue
    /\ importer' = [importer EXCEPT ![i].at = "sent"]
    /\ UNCHANGED <<store, watch, driver, disk, evicting>>

(* Step (g), under one read guard; a head that is not in the store is an error. *)
ComputeHead(i) ==
    /\ importer[i].at = "sent"
    /\ LET head == GetHead(store)
       IN  importer' = [importer EXCEPT ![i] =
               IF head \in store.blocks
               THEN [at |-> "computed", root |-> @.root, change |-> HeadChange(store, head)]
               ELSE Idle]
    /\ UNCHANGED <<store, queue, watch, driver, disk, evicting>>

(* Step (h) and the caller's head_tx.send: the block's payload status is seeded once more, and  *)
(* when the write fails the head is not published.                                             *)
Publish(i) ==
    /\ importer[i].at = "computed"
    /\ store' = MarkPayloadStatusIfAbsent(store, importer[i].root)
    /\ \/ /\ disk' = [disk EXCEPT !.hot = @ \cup {importer[i].root}]
          /\ watch' = Send(importer[i].change)
       \/ UNCHANGED <<disk, watch>>
    /\ importer' = [importer EXCEPT ![i] = Idle]
    /\ UNCHANGED <<queue, driver, evicting>>

-----------------------------------------------------------------------------
(* run_engine_driver_loop: one call at a time. *)

TakeHead ==
    /\ driver = Idle /\ watch.driver
    /\ watch' = [watch EXCEPT !.driver = FALSE]
    /\ driver' = [at |-> "fcu", change |-> watch.change]
    /\ UNCHANGED <<store, importer, queue, disk, evicting>>

(* VALID, SYNCING, ACCEPTED and a failed call change nothing.  `unanswered` is a history       *)
(* variable: the store knew the head to be INVALID and the call did not bring that back.       *)
FcuReturns ==
    /\ driver.at = "fcu"
    /\ driver' = Idle
    /\ LET missed == watch.change = driver.change /\ store.status[driver.change.head] = "Invalid"
       IN  watch' = [watch EXCEPT !.unanswered = @ \/ missed]
    /\ UNCHANGED <<store, importer, queue, disk, evicting>>

FcuReturnsInvalid ==
    /\ driver.at = "fcu" /\ Condemned(driver.change.head)
    /\ \E lvh \in {Null} \cup LatestValidHash(driver.change.head) :
          driver' = [at |-> "invalid", root |-> driver.change.head, lvh |-> lvh, prev |-> driver.change.head]
    /\ UNCHANGED <<store, importer, queue, watch, disk, evicting>>

TakePayload ==
    /\ driver = Idle /\ queue # <<>>
    /\ driver' = [at |-> "newPayload", root |-> Head(queue)]
    /\ queue' = Tail(queue)
    /\ UNCHANGED <<store, importer, watch, disk, evicting>>

NewPayloadReturnsValid ==
    /\ driver.at = "newPayload" /\ ~Condemned(driver.root)
    /\ store' = PromoteValidAncestors(MarkPayloadStatus(store, driver.root, "Valid"), driver.root)
    /\ driver' = Idle
    /\ UNCHANGED <<importer, queue, watch, disk, evicting>>

(* SYNCING, ACCEPTED, or an error of the call. *)
NewPayloadReturnsNothing ==
    /\ driver.at = "newPayload"
    /\ store' = MarkPayloadStatus(store, driver.root, "NotValidated")
    /\ driver' = Idle
    /\ UNCHANGED <<importer, queue, watch, disk, evicting>>

(* The head to compare with is borrowed from the watch before the write lock is taken. *)
NewPayloadReturnsInvalid ==
    /\ driver.at = "newPayload" /\ Condemned(driver.root)
    /\ \E lvh \in {Null} \cup LatestValidHash(driver.root) :
          driver' = [at |-> "invalid", root |-> driver.root, lvh |-> lvh, prev |-> watch.change.head]
    /\ UNCHANGED <<store, importer, queue, watch, disk, evicting>>

(* apply_invalid_payload and get_head, under one write lock. *)
Invalidate ==
    /\ driver.at = "invalid"
    /\ store' = InvalidateFrom(store, ResolveInvalidBlock(store, driver.root, driver.lvh))
    /\ driver' = [at |-> "emit", head |-> GetHead(store'), prev |-> driver.prev]
    /\ UNCHANGED <<importer, queue, watch, disk, evicting>>

(* Mutant: the head is announced only when there was none before. *)
MaybeEmitHeadChangeOnce ==
    /\ driver.at = "emit"
    /\ watch' = IF driver.prev # Zero THEN watch ELSE Send(HeadChange(store, driver.head))
    /\ driver' = Idle
    /\ UNCHANGED <<store, importer, queue, disk, evicting>>

(* Under a read lock of its own. *)
MaybeEmitHeadChange ==
    /\ driver.at = "emit"
    /\ watch' = IF driver.head = driver.prev THEN watch ELSE Send(HeadChange(store, driver.head))
    /\ driver' = Idle
    /\ UNCHANGED <<store, importer, queue, disk, evicting>>

-----------------------------------------------------------------------------
(* run_freezer_loop: what it does to the store.  All hot blocks of (split, finalized] leave   *)
(* the hot columns, copied to the cold ones if they are canonical.                            *)

FreezerMigrates ==
    /\ watch.freezer /\ evicting = {}
    /\ watch' = [watch EXCEPT !.freezer = FALSE]
    /\ LET finalized == StartSlot(store.finalized.epoch)
           moved == {r \in disk.hot : disk.split < Slot[r] /\ Slot[r] <= finalized}
       IN  \/ /\ finalized > disk.split
              /\ disk' = [hot |-> disk.hot \ moved, split |-> finalized]
              /\ evicting' = moved
           \/ UNCHANGED <<disk, evicting>>       \* nothing to do, or the batch failed
    /\ UNCHANGED <<store, importer, queue, driver>>

EvictFinalizedFromFc ==
    /\ evicting # {}
    /\ LET out == evicting \cup {r \in store.blocks : Slot[r] < disk.split}
       IN  store' = [store EXCEPT
               !.blocks = @ \ out, !.states = @ \ out, !.pulled = @ \ out,
               !.status = [r \in Roots |-> IF r \in out THEN "None" ELSE @[r]],
               !.latest = [v \in Validators |-> IF @[v].root \in out THEN NoVote ELSE @[v]]]
    /\ evicting' = {}
    /\ UNCHANGED <<importer, queue, watch, driver, disk>>

-----------------------------------------------------------------------------
Importing(i) == RunOnBlock(i) \/ SendPayload(i) \/ ComputeHead(i) \/ Publish(i)

Driving ==
    \/ TakeHead \/ FcuReturns \/ FcuReturnsInvalid \/ TakePayload
    \/ NewPayloadReturnsValid \/ NewPayloadReturnsNothing \/ NewPayloadReturnsInvalid
    \/ Invalidate \/ MaybeEmitHeadChange

Next ==
    \/ \E i \in Importers : \E r \in Fetched[i] : StartImport(i, r)
    \/ \E i \in Importers : Importing(i)
    \/ Driving \/ FreezerMigrates \/ EvictFinalizedFromFc

(* Every task goes on: the driver loop, and an importer until its import_block returns. *)
Spec ==
    /\ Init /\ [][Next]_vars
    /\ WF_vars(Driving) /\ \A i \in Importers : WF_vars(Importing(i))

-----------------------------------------------------------------------------
(* Properties. *)

Hashes == Roots \cup {Zero}
Changes == [head : Hashes, safe : Hashes, finalized : Hashes]

(* Every variable keeps its type, and payload_tx never holds more than its capacity. *)
TypeOK ==
    /\ store \in Store
    /\ \A i \in Importers : \/ importer[i] = Idle
                            \/ importer[i] \in [at : {"checked", "inserted", "sent"}, root : Roots]
                            \/ importer[i] \in [at : {"computed"}, root : Roots, change : Changes]
    /\ Len(queue) <= QueueSize /\ \A k \in 1..Len(queue) : queue[k] \in Roots
    /\ watch \in [change : Changes, driver : BOOLEAN, freezer : BOOLEAN, unanswered : BOOLEAN]
    /\ \/ driver = Idle
       \/ driver \in [at : {"fcu"}, change : Changes]
       \/ driver \in [at : {"newPayload"}, root : Roots]
       \/ driver \in [at : {"invalid"}, root : Roots, lvh : Roots \cup {Null}, prev : Hashes]
       \/ driver \in [at : {"emit"}, head : Roots, prev : Hashes]
    /\ disk \in [hot : SUBSET Roots, split : Nat] /\ evicting \subseteq Roots

(* A verdict in payload_statuses is one the execution layer gives: the walk over latestValidHash *)
(* never condemns a good block and promotion never clears a bad one, whatever was imported,      *)
(* evicted or asked twice in between.                                                            *)
VerdictsAreTrue ==
    \A r \in Roots : /\ store.status[r] = "Valid" => ~Condemned(r)
                     /\ store.status[r] = "Invalid" => Condemned(r)

(* What an importer publishes is one chain: finalized below safe below head ("under a SINGLE     *)
(* read guard so the head-root selection and its block-hash lookup are consistent").             *)
HeadChangeConsistent ==
    \A i \in Importers : importer[i] # Idle /\ importer[i].at = "computed" =>
        LET c == importer[i].change
        IN  /\ c.safe # Zero => c.safe \in Chain[c.head]
            /\ c.finalized # Zero => c.safe # Zero /\ c.finalized \in Chain[c.safe]

HeadInvalid == watch.change.head # Zero /\ store.status[watch.change.head] = "Invalid"

(* A published head that turns out INVALID, or was already when a slow importer published it,    *)
(* is replaced by another one, unless forkchoiceUpdated brought no verdict on it.                *)
InvalidHeadIsReplaced == HeadInvalid ~> (~HeadInvalid \/ watch.unanswered)

(* "On a newPayload VALID, promote_valid_ancestors walks parent_root marking every NotValidated  *)
(* ancestor (and the block itself) Valid" (docs/decisions.md, D-valid-ancestor-promotion).       *)
AncestorsPromoted ==
    \A r \in store.blocks : store.status[r] = "Valid"
        => \A q \in WalkBack(store, r) : store.status[q] # "NotValidated"

(* "Returns Hash256::default() (zero hash) for pre-merge (Phase0/Altair) blocks"                 *)
(* (compute_finalized_block_hash): past the merge the finalized block has a hash, and evicting   *)
(* what is "strictly below finalized_slot" does not take it away.                                *)
FinalizedHashKnown ==
    watch.change.head # Zero => watch.change.finalized # Zero
=============================================================================
