--------------------------- MODULE BlockPipeline ---------------------------
(***************************************************************************)
(* How a block reaches the fork-choice store (pharos-node:                 *)
(* block_ingestion.rs, blob_ingestion.rs, column_ingestion.rs,             *)
(* data_availability.rs, lookup.rs, backfill.rs, the gates of import.rs).  *)
(*                                                                         *)
(* Three tasks import blocks.  The ingestion loop takes gossip and what is *)
(* injected again: blocks parked until their sidecars arrive, and          *)
(* blocks held until their slot starts.  The lookup loop keeps the blocks  *)
(* with an unknown parent, walks back to a known block and replays them.   *)
(* The backfill loop fetches the range between the head and the wall       *)
(* clock.  They meet in the fork-choice store, the sidecar store and the   *)
(* lookup queue, whose senders drop what does not fit.                     *)
(*                                                                         *)
(* Every block is valid.  `imported` stands for store.blocks and           *)
(* store.block_states; an import's insertion and its write to disk are one *)
(* step here (their interleavings are the subject of Persistence).  The    *)
(* sidecars of a block are its blobs, or from Fulu on its expected data    *)
(* columns: the two registries and ingestion loops have the same control.  *)
(***************************************************************************)
EXTENDS PendingBlocks

CONSTANTS
    Anchor, Slot,       \* the block the store starts with; the slot of each block
    Canonical,          \* the chain that peers serve by range
    Gossiped,           \* blocks that gossip may deliver
    From,               \* From[r]: the peer that gossips block r
    Blobs,              \* blocks with KZG commitments
    Sidecars,           \* the sidecars such a block needs
    QueueSize,          \* capacity of lookup_tx
    MaxDepth,           \* MAX_LOOKUP_DEPTH
    StartSlot, MaxSlot  \* the wall clock at the start, and its bound

ASSUME PipelineAssumption ==
    /\ Anchor \in Roots /\ Parent \in [Roots \ {Anchor} -> Roots] /\ Slot \in [Roots -> Nat]
    /\ \A r \in Roots \ {Anchor} : Slot[Parent[r]] < Slot[r]
    /\ Canonical \subseteq Roots \ {Anchor} /\ Blobs \subseteq Roots \ {Anchor}
    /\ Gossiped \subseteq Roots \ {Anchor} /\ From \in [Gossiped -> Peers]
    /\ QueueSize \in Nat \ {0} /\ MaxDepth \in Nat /\ StartSlot \in Nat
    /\ MaxSlot \in Nat /\ StartSlot <= MaxSlot

VARIABLES
    clock,      \* wall clock, in slots; the fork-choice store follows it
    imported,   \* blocks in the fork-choice store
    sidecars,   \* sidecars[r]: those of block r in the database
    heard,      \* what gossip has delivered: the blocks, and the sidecars as <<block, sidecar>>
    ingest,     \* where run_block_ingestion_loop is
    reinject,   \* blocks on the re-inject channel
    held,       \* blocks that a task of hold_future_block sleeps on
    parked,     \* BlobAwaitingBlocks and ColumnAwaitingBlocks
    timers,     \* timers[r]: its eviction timers that still run
    arrived,    \* blocks for which the sidecar loop is about to notify the registry
    lookups,    \* the queue of LookupRequest
    lookup,     \* where run_lookup_loop is
    pending,    \* PendingBlocks
    backfill,   \* where run_backfill_loop is
    ghost       \* history, for the properties

vars == <<clock, imported, sidecars, heard, ingest, reinject, held, parked, timers, arrived,
          lookups, lookup, pending, backfill, ghost>>

Blocks == Roots \ {Anchor}
Idle == [at |-> "idle"]

Init ==
    /\ clock = StartSlot
    /\ imported = {Anchor}
    /\ sidecars = [r \in Roots |-> {}]
    /\ heard = [blocks |-> {}, sidecars |-> {}]
    /\ ingest = Idle
    /\ reinject = {} /\ held = {} /\ parked = {} /\ arrived = {}
    /\ timers = [r \in Roots |-> 0]
    /\ lookups = <<>>
    /\ lookup = Idle
    /\ pending = EmptyPending
    /\ backfill = Idle
    /\ ghost = [bypassed |-> {}, stranded |-> {}, late |-> {}, broken |-> FALSE]

Tick ==
    /\ clock < MaxSlot
    /\ clock' = clock + 1
    /\ UNCHANGED <<imported, sidecars, heard, ingest, reinject, held, parked, timers, arrived,
                   lookups, lookup, pending, backfill, ghost>>

-----------------------------------------------------------------------------
(* import_block, as far as it decides whether the block enters the store.                     *)

(* is_data_available, of the fork-aware checker. *)
Available(r, data) == r \in Blobs => data = Sidecars

(* Mutant: a block of which no sidecar is stored counts as one without data. *)
OutcomeIrrelevant(r, data) ==
    IF Parent[r] \notin imported THEN "missing_parent"
    ELSE IF r \in imported THEN "already_imported"
    ELSE IF data # {} /\ ~Available(r, data) THEN "not_available"
    ELSE IF Slot[r] > clock THEN "future_slot"
    ELSE "ok"

(* The outcome of import_block, whose DA check sees the sidecars `data`. *)
Outcome(r, data) ==
    IF Parent[r] \notin imported THEN "missing_parent"
    ELSE IF r \in imported THEN "already_imported"
    ELSE IF ~Available(r, data) THEN "not_available"
    ELSE IF Slot[r] > clock THEN "future_slot"
    ELSE "ok"

(* The Noop checker of the backfill loop. *)
OutcomeUnchecked(r) == Outcome(r, IF r \in Blobs THEN Sidecars ELSE {})

(* Mutant: the queue has no limit. *)
SendAlways(request) == lookups' = Append(lookups, request)

(* What the DA check may get to see: if the stored sidecars do not do, those of the execution *)
(* layer (engine_getBlobs), which has all or is not asked further.  For a Fulu block these    *)
(* are blobs, and the fork-aware checker takes them in place of the columns.                  *)
Seen(r, data) == {data} \cup IF Outcome(r, data) = "not_available" THEN {Sidecars} ELSE {}

(* lookup_tx.try_send *)
TrySend(request) ==
    lookups' = IF Len(lookups) < QueueSize THEN Append(lookups, request) ELSE lookups

Sent == lookups' # lookups

ParentImported(r) == [of |-> "parent_imported", root |-> r]
UnknownParent(r) == [of |-> "unknown_parent", root |-> r]

(* Block r entered the store and the lookup loop was not told of it.                          *)
Unsignalled(r) ==
    [ghost EXCEPT !.stranded = @ \cup {c \in Waiting(pending) : Parent[c] = r}]

-----------------------------------------------------------------------------
(* The ingestion loop.                                                                        *)

(* validate_beacon_block lets a block through up to MAXIMUM_GOSSIP_CLOCK_DISPARITY before its *)
(* slot; gossipsub delivers a message once.                                                   *)
Gossips(r) == r \in Gossiped \ heard.blocks /\ Slot[r] <= clock + 1

GossipBlock(r) ==
    /\ ingest = Idle
    /\ Gossips(r)
    /\ Parent[r] \in imported
    /\ heard' = [heard EXCEPT !.blocks = @ \cup {r}]
    /\ ingest' = [at |-> "import", root |-> r]
    /\ UNCHANGED <<clock, imported, sidecars, reinject, held, parked, timers, arrived, lookups,
                   lookup, pending, backfill, ghost>>

(* The parent was unseen when the network validated the block. *)
GossipOrphan(r) ==
    /\ ingest = Idle
    /\ Gossips(r)
    /\ Parent[r] \notin imported
    /\ heard' = [heard EXCEPT !.blocks = @ \cup {r}]
    /\ TrySend(UnknownParent(r))
    /\ UNCHANGED <<clock, imported, sidecars, ingest, reinject, held, parked, timers, arrived,
                   lookup, pending, backfill, ghost>>

TakeReinjected(r) ==
    /\ ingest = Idle
    /\ r \in reinject
    /\ reinject' = reinject \ {r}
    /\ ingest' = [at |-> "import", root |-> r]
    /\ UNCHANGED <<clock, imported, sidecars, heard, held, parked, timers, arrived, lookups,
                   lookup, pending, backfill, ghost>>

(* A block that is imported is announced to the lookup loop, unless it could not be written   *)
(* to disk: it is in the store then, and the import is an error.                              *)
IngestSucceeds ==
    LET r == ingest.root IN
    /\ ingest.at = "import"
    /\ \E data \in Seen(r, sidecars[r]) :
        /\ Outcome(r, data) = "ok"
        /\ sidecars' = [sidecars EXCEPT ![r] = data]
    /\ imported' = imported \cup {r}
    /\ ingest' = Idle
    /\ \/ /\ TrySend(ParentImported(r))
          /\ ghost' = IF Sent THEN ghost ELSE Unsignalled(r)
       \/ /\ ghost' = Unsignalled(r)
          /\ UNCHANGED lookups
    /\ UNCHANGED <<clock, heard, reinject, held, parked, timers, arrived, lookup, pending,
                   backfill>>

(* MissingParentState and AlreadyImported drop the block, FutureSlot holds it and             *)
(* DataNotAvailable is about to park it.                                                      *)
IngestRefused ==
    LET r == ingest.root IN
    /\ ingest.at = "import"
    /\ \E data \in Seen(r, sidecars[r]) :
        /\ Outcome(r, data) # "ok"
        /\ sidecars' = [sidecars EXCEPT ![r] = data]
        /\ ingest' = IF Outcome(r, data) = "not_available" THEN [at |-> "park", root |-> r]
                     ELSE Idle
        /\ held' = IF Outcome(r, data) = "future_slot" THEN held \cup {r} ELSE held
    /\ UNCHANGED <<clock, imported, heard, reinject, parked, timers, arrived, lookups, lookup,
                   pending, backfill, ghost>>

(* park, of both registries.  Nothing is told of sidecars that arrived since the DA check.    *)
Park ==
    LET r == ingest.root IN
    /\ ingest.at = "park"
    /\ ingest' = Idle
    /\ parked' = parked \cup {r}
    /\ timers' = IF r \in parked THEN timers ELSE [timers EXCEPT ![r] = @ + 1]
    /\ ghost' = IF Available(r, sidecars[r]) /\ r \notin arrived
                THEN [ghost EXCEPT !.late = @ \cup {r}] ELSE ghost
    /\ UNCHANGED <<clock, imported, sidecars, heard, reinject, held, arrived, lookups, lookup,
                   pending, backfill>>

(* The hold time of a registry has passed since some parking of the block. *)
EvictParked(r) ==
    /\ timers[r] > 0
    /\ timers' = [timers EXCEPT ![r] = @ - 1]
    /\ parked' = parked \ {r}
    /\ UNCHANGED <<clock, imported, sidecars, heard, ingest, reinject, held, arrived, lookups,
                   lookup, pending, backfill, ghost>>

(* Mutant: the task ends without sending the block. *)
HoldEndsSilently(r) ==
    /\ r \in held
    /\ Slot[r] <= clock
    /\ held' = held \ {r}
    /\ UNCHANGED <<clock, imported, sidecars, heard, ingest, reinject, parked, timers, arrived,
                   lookups, lookup, pending, backfill, ghost>>

HoldEnds(r) ==
    /\ r \in held
    /\ Slot[r] <= clock
    /\ held' = held \ {r}
    /\ reinject' = reinject \cup {r}
    /\ UNCHANGED <<clock, imported, sidecars, heard, ingest, parked, timers, arrived, lookups,
                   lookup, pending, backfill, ghost>>

-----------------------------------------------------------------------------
(* The loops that take sidecars.                                                              *)

(* A sidecar is written, or the write fails; the registry is told in both cases. *)
GossipSidecar(r, c) ==
    /\ arrived = {}
    /\ <<r, c>> \notin heard.sidecars
    /\ heard' = [heard EXCEPT !.sidecars = @ \cup {<<r, c>>}]
    /\ \E written \in {{}, {c}} : sidecars' = [sidecars EXCEPT ![r] = @ \cup written]
    /\ arrived' = {r}
    /\ UNCHANGED <<clock, imported, ingest, reinject, held, parked, timers, lookups, lookup,
                   pending, backfill, ghost>>

(* Mutant: the notification finds no entry. *)
NotifyMisses(r) ==
    /\ r \in arrived
    /\ arrived' = {}
    /\ UNCHANGED <<clock, imported, sidecars, heard, ingest, reinject, held, parked, timers,
                   lookups, lookup, pending, backfill, ghost>>

NotifyArrived(r) ==
    /\ r \in arrived
    /\ arrived' = {}
    /\ parked' = parked \ {r}
    /\ reinject' = IF r \in parked THEN reinject \cup {r} ELSE reinject
    /\ UNCHANGED <<clock, imported, sidecars, heard, ingest, held, timers, lookups, lookup,
                   pending, backfill, ghost>>

-----------------------------------------------------------------------------
(* The lookup loop: one request at a time, with everything it entails.                        *)

Replaying(stack, todo) == [at |-> "replay", stack |-> stack, todo |-> todo]

TakeRequest ==
    LET r == Head(lookups).root
        known == Parent[r] \in imported
    IN
    /\ lookup = Idle
    /\ lookups # <<>>
    /\ lookups' = Tail(lookups)
    /\ lookup' = IF Head(lookups).of = "parent_imported" THEN Replaying(<<r>>, <<>>)
                 ELSE IF known THEN [at |-> "direct", root |-> r]
                 ELSE [at |-> "fetch", root |-> Parent[r], depth |-> MaxDepth]
    /\ pending' = IF Head(lookups).of = "unknown_parent" /\ ~known
                  THEN Insert(pending, r, From[r]) ELSE pending
    /\ UNCHANGED <<clock, imported, sidecars, heard, ingest, reinject, held, parked, timers,
                   arrived, backfill, ghost>>

(* blocks_by_root: a peer serves the block, or the walk ends. *)
LookupFetches ==
    /\ lookup.at = "fetch"
    /\ lookup' \in {Idle, [lookup EXCEPT !.at = "walk"]}
    /\ UNCHANGED <<clock, imported, sidecars, heard, ingest, reinject, held, parked, timers,
                   arrived, lookups, pending, backfill, ghost>>

LookupImporting ==
    \/ lookup.at \in {"direct", "walk"}
    \/ lookup.at = "replay" /\ lookup.todo # <<>>

(* Where the loop goes once try_import has answered for block r. *)
AfterAttempt(r, attempt) ==
    IF lookup.at = "replay"
    THEN Replaying(IF attempt = "ok" THEN Append(lookup.stack, r) ELSE lookup.stack,
                   Tail(lookup.todo))
    ELSE IF attempt = "ok" THEN Replaying(<<r>>, <<>>)
    ELSE IF lookup.at = "walk" /\ attempt = "missing_parent" /\ lookup.depth > 0
    THEN [at |-> "fetch", root |-> Parent[r], depth |-> lookup.depth - 1]
    ELSE Idle

(* try_import fetches and writes the sidecars a peer serves, then imports.  A block that      *)
(* could not be written to disk is in the store, and rejected.                                *)
LookupImports ==
    LET r == IF lookup.at = "replay" THEN Head(lookup.todo) ELSE lookup.root IN
    /\ LookupImporting
    /\ \E served \in SUBSET Sidecars, stored \in BOOLEAN :
       \E data \in Seen(r, sidecars[r] \cup served) :
        LET outcome == Outcome(r, data)
            attempt == IF outcome = "ok" /\ ~stored THEN "rejected" ELSE outcome
        IN
        /\ r \notin Blobs => served = {}
        /\ outcome # "ok" => stored
        /\ sidecars' = [sidecars EXCEPT ![r] = data]
        /\ imported' = IF outcome = "ok" THEN imported \cup {r} ELSE imported
        /\ held' = IF outcome = "future_slot" THEN held \cup {r} ELSE held
        /\ ghost' = IF attempt = "rejected" THEN Unsignalled(r) ELSE ghost
        /\ lookup' = AfterAttempt(r, attempt)
        /\ pending' = IF lookup'.at = "fetch" THEN Insert(pending, r, RandomPeer) ELSE pending
    /\ UNCHANGED <<clock, heard, ingest, reinject, parked, timers, arrived, lookups, backfill>>

(* Mutant: only the children of the first block are replayed. *)
DrainOnce ==
    /\ lookup.at = "replay"
    /\ lookup.todo = <<>>
    /\ IF Len(lookup.stack) # 1
       THEN lookup' = Idle /\ UNCHANGED pending
       ELSE LET q == lookup.stack[1] IN
            /\ lookup' = Replaying(<<q, q>>,
                   [i \in DOMAIN pending.by_parent[q] |-> pending.by_parent[q][i].root])
            /\ pending' = DrainChildren(pending, q)
    /\ UNCHANGED <<clock, imported, sidecars, heard, ingest, reinject, held, parked, timers,
                   arrived, lookups, backfill, ghost>>

(* drain_and_replay pops the last block of its stack and takes its children out of the store. *)
Drain ==
    /\ lookup.at = "replay"
    /\ lookup.todo = <<>>
    /\ IF lookup.stack = <<>>
       THEN lookup' = Idle /\ UNCHANGED pending
       ELSE LET q == lookup.stack[Len(lookup.stack)] IN
            /\ lookup' = Replaying(SubSeq(lookup.stack, 1, Len(lookup.stack) - 1),
                   [i \in DOMAIN pending.by_parent[q] |-> pending.by_parent[q][i].root])
            /\ pending' = DrainChildren(pending, q)
    /\ UNCHANGED <<clock, imported, sidecars, heard, ingest, reinject, held, parked, timers,
                   arrived, lookups, backfill, ghost>>

-----------------------------------------------------------------------------
(* The backfill loop.  It parks when it has caught up and looks again when it is notified or  *)
(* after BACKFILL_FOLLOW_FALLBACK, so it may always take its next step.                       *)

(* get_head returns a leaf of the store; which one is the subject of ForkChoice. *)
Heads == {r \in imported : \A c \in imported \ {Anchor} : Parent[c] # r}

Missing(h) == {r \in Canonical : Slot[r] > Slot[h] /\ Slot[r] < clock}

BackfillFetches ==
    /\ backfill = Idle
    /\ \E h \in Heads :
        /\ Slot[h] + 1 < clock
        /\ Missing(h) # {}
        /\ backfill' = [at |-> "chunk", todo |-> Missing(h)]
    /\ UNCHANGED <<clock, imported, sidecars, heard, ingest, reinject, held, parked, timers,
                   arrived, lookups, lookup, pending, ghost>>

(* Mutant: a provider error ends the loop. *)
BackfillGivesUp ==
    /\ backfill = Idle
    /\ \E h \in Heads : Slot[h] + 1 < clock
    /\ backfill' = [at |-> "ended"]
    /\ UNCHANGED <<clock, imported, sidecars, heard, ingest, reinject, held, parked, timers,
                   arrived, lookups, lookup, pending, ghost>>

(* No peer, a provider error or an empty answer: the loop sleeps and tries again. *)
BackfillFetchFails ==
    /\ backfill = Idle
    /\ \E h \in Heads : Slot[h] + 1 < clock
    /\ UNCHANGED vars

(* One block of the chunk, in slot order.  MissingParentState ends the chunk, a storage error *)
(* the loop. *)
BackfillImports ==
    /\ backfill.at = "chunk"
    /\ \E r \in backfill.todo :
        LET rest == backfill.todo \ {r}
            next == IF rest = {} THEN Idle ELSE [backfill EXCEPT !.todo = rest]
            unchecked == IF Available(r, sidecars[r]) THEN {} ELSE {r}
        IN
        /\ \A c \in rest : Slot[r] < Slot[c]
        /\ \/ /\ OutcomeUnchecked(r) = "missing_parent"
              /\ backfill' = Idle
              /\ UNCHANGED <<imported, lookups, ghost>>
           \/ /\ OutcomeUnchecked(r) = "already_imported"
              /\ backfill' = next
              /\ UNCHANGED <<imported, lookups, ghost>>
           \/ /\ OutcomeUnchecked(r) = "ok"
              /\ imported' = imported \cup {r}
              /\ \/ /\ backfill' = next
                    /\ TrySend(ParentImported(r))
                    /\ ghost' = [IF Sent THEN ghost ELSE Unsignalled(r)
                                 EXCEPT !.bypassed = @ \cup unchecked]
                 \/ /\ backfill' = [at |-> "ended"]
                    /\ ghost' = [Unsignalled(r) EXCEPT !.bypassed = @ \cup unchecked,
                                                       !.broken = TRUE]
                    /\ UNCHANGED lookups
    /\ UNCHANGED <<clock, sidecars, heard, ingest, reinject, held, parked, timers, arrived,
                   lookup, pending>>

-----------------------------------------------------------------------------
Ingestion ==
    \/ \E r \in Blocks : GossipBlock(r) \/ GossipOrphan(r) \/ TakeReinjected(r)
    \/ IngestSucceeds \/ IngestRefused \/ Park

Lookup == TakeRequest \/ LookupFetches \/ LookupImports \/ Drain

Backfill == BackfillFetches \/ BackfillFetchFails \/ BackfillImports

Next ==
    \/ Tick
    \/ Ingestion
    \/ \E r \in Blocks : EvictParked(r) \/ HoldEnds(r) \/ NotifyArrived(r)
    \/ \E r \in Blobs, c \in Sidecars : GossipSidecar(r, c)
    \/ Lookup
    \/ Backfill

(* The loops keep running, sleeps end, the clock advances, and a peer answers some request.   *)
(* Nothing is assumed of gossip, of the eviction timers or of writes to disk.                 *)
Fairness ==
    /\ WF_vars(Tick)
    /\ WF_vars((\E r \in Blocks : TakeReinjected(r)) \/ IngestSucceeds \/ IngestRefused \/ Park)
    /\ WF_vars(\E r \in Blocks : HoldEnds(r))
    /\ WF_vars(Lookup)
    /\ WF_vars(BackfillFetches \/ BackfillImports)

Spec == Init /\ [][Next]_vars /\ Fairness

-----------------------------------------------------------------------------
(* Every variable stays in its domain. *)
TypeOK ==
    /\ clock \in 0..MaxSlot
    /\ imported \subseteq Roots
    /\ sidecars \in [Roots -> SUBSET Sidecars]
    /\ heard \in [blocks : SUBSET Blocks, sidecars : SUBSET (Blobs \X Sidecars)]
    /\ ingest \in {Idle} \cup [at : {"import", "park"}, root : Blocks]
    /\ reinject \subseteq Blocks /\ held \subseteq Blocks /\ parked \subseteq Blobs
    /\ timers \in [Roots -> Nat]
    /\ arrived \subseteq Blobs
    /\ Len(lookups) <= QueueSize
    /\ \A i \in DOMAIN lookups : lookups[i] \in
          [of : {"unknown_parent", "parent_imported"}, root : Blocks]
    /\ lookup.at \in {"idle", "direct", "fetch", "walk", "replay"}
    /\ pending \in PendingType
    /\ backfill \in {Idle, [at |-> "ended"]} \cup [at : {"chunk"}, todo : SUBSET Canonical]

(* The four structures of PendingBlocks tell the same story, whatever mix of orphans, walks,  *)
(* evictions and replays has run: the buckets hold exactly the blocks of the arrival order,   *)
(* each once and under its parent, the total and the numbers per peer count them, and neither *)
(* cap is exceeded.  ("keeping all structures consistent", evict_oldest.)                     *)
PendingConsistent ==
    LET inBucket(q) == Values(pending.by_parent[q])
        entries == Entries(pending)
    IN
    /\ \A q \in Roots : /\ \A e \in inBucket(q) : Parent[e.root] = q
                        /\ Cardinality(inBucket(q)) = Len(pending.by_parent[q])
    /\ Waiting(pending) = {e.root : e \in entries}
    /\ pending.total = Cardinality(entries) /\ pending.total = Len(pending.order)
    /\ pending.total = Cardinality(Waiting(pending))
    /\ \A p \in Peers : pending.per_peer[p] = Cardinality({e \in entries : e.peer = p})
    /\ pending.total <= MaxPending /\ \A p \in Peers : pending.per_peer[p] <= MaxPerPeer

(* A block with commitments that gossip or lookup brought into the fork-choice store has its  *)
(* whole expected set of sidecars in the database, also when parking, re-injection, holding   *)
(* for a future slot and the lookup loop's own fetches interleave.  Only the backfill loop,   *)
(* which checks nothing, goes past the DA gate of import_block.                               *)
GateRespected == \A r \in imported \ ghost.bypassed : Available(r, sidecars[r])

(* A parked block whose sidecars are complete is about to be injected again, or is on its way *)
(* into the store already.  The one exception is the block that was parked after the last of  *)
(* its sidecars had been announced: between the DA check and park nothing is registered.      *)
NoOtherLostWakeUp ==
    \A r \in parked : Available(r, sidecars[r]) =>
        \/ r \in arrived \cup imported \cup held \cup reinject \cup ghost.late
        \/ ingest # Idle /\ ingest.root = r

(* A block held for its slot is imported in the end ("re-inject at slot start rather than     *)
(* drop", run_block_ingestion_loop): what let it pass the parent check and the DA gate still  *)
(* does when the slot starts.                                                                 *)
HeldIsImported ==
    \A r \in {b \in Blocks : Slot[b] > StartSlot} : r \in held ~> r \in imported

(* No block keeps waiting in PendingBlocks for a parent that is in the store, except where    *)
(* the announcement of the parent did not fit the lookup queue or the parent was not written  *)
(* to disk: the signal of the importing task, or the replay of the lookup loop itself,        *)
(* reaches every descendant.                                                                  *)
PendingIsReplayed ==
    []<>(\A r \in Waiting(pending) : Parent[r] \in imported => r \in ghost.stranded)

(* Whatever gossip loses, the lookup queue drops, the timers evict and the walks give up, the *)
(* blocks that peers serve by range end up in the store: the backfill loop closes every gap.  *)
(* Not so when a failed write ends it, nor when a block of another chain is in the store: the *)
(* range starts after the head, and a head on that chain may hide the gap.                    *)
ChainIsFollowed ==
    <>(\/ ghost.broken
       \/ ~(imported \subseteq Canonical \cup {Anchor})
       \/ \A r \in Canonical : Slot[r] < MaxSlot => r \in imported)
=============================================================================
