----------------------------- MODULE ForkChoice -----------------------------
(***************************************************************************)
(* The tasks of the node that write the fork-choice store: the one-second  *)
(* ticker of main.rs, the importers of import.rs with the nudge they give  *)
(* its clock before on_block, and the handlers for votes, slashings and    *)
(* invalid payloads.  An action is one critical section of the write lock. *)
(***************************************************************************)
EXTENDS ForkChoiceStore

CONSTANTS
    Votes,                          \* attestation data that may arrive
    Equivocators,                   \* validators an attester slashing may name
    Judged,                         \* blocks whose payload the execution layer judges
    MaxSlot,                        \* bound on the wall clock
    MaxDelay,                       \* slots between an importer's clock reading and its lock
    MaxLag                          \* slots store.time may lag behind it at the nudge

ASSUME BoundAssumption == MaxSlot \in Nat /\ MaxDelay \in Nat /\ MaxLag \in Nat
ASSUME VoteAssumption ==
    /\ Votes \subseteq [slot : Nat, root : Roots, target : Checkpoint]
    /\ Equivocators \subseteq Validators /\ Judged \subseteq Exec

VARIABLES
    store,      \* the Store behind the RwLock
    clock,      \* wall clock, in slots since genesis
    reading     \* the ticker's `now`, read before it waits for the lock

vars == <<store, clock, reading>>

NoReading == -1

Init == store = InitStore /\ clock = Slot[Anchor] /\ reading = NoReading

Tick ==
    /\ clock < MaxSlot
    /\ clock' = clock + 1
    /\ UNCHANGED <<store, reading>>

(* The ticker reads the wall clock and then waits for fc.write(). *)
TickerReads ==
    /\ reading = NoReading
    /\ reading' = clock
    /\ UNCHANGED <<store, clock>>

TickerTicks ==
    /\ reading # NoReading
    /\ store' = OnTick(store, reading)
    /\ reading' = NoReading
    /\ UNCHANGED clock

(* Steps (e) of import_block: `now` was read before the lock was taken.  A block that on_block *)
(* refuses leaves the nudged clock behind.                                                     *)
ImportBlock(r, now, elected) ==
    /\ now - store.time <= MaxLag
    /\ LET s == Nudge(store, now)
       IN  store' = IF AcceptsBlock(s, r) THEN OnBlock(s, r, now, elected) ELSE s
    /\ UNCHANGED <<clock, reading>>

(* The voters are V; none when the aggregate signature does not verify, which is found out     *)
(* after the target's state was stored.                                                        *)
OnAttestation(a, V, fromBlock) ==
    /\ ValidAttestation(store, a, fromBlock)
    /\ store' = UpdateLatestMessages(store, V, a)
    /\ UNCHANGED <<clock, reading>>

OnAttesterSlashing(V) ==
    /\ store.justified.root \in store.blocks
    /\ store' = [store EXCEPT !.equivocating = @ \cup V]
    /\ UNCHANGED <<clock, reading>>

ApplyInvalidPayload(r) ==
    /\ r \in store.blocks
    /\ store' = InvalidateFrom(store, r)
    /\ UNCHANGED <<clock, reading>>

Readings == {now \in 0..clock : now + MaxDelay >= clock}

Next ==
    \/ Tick \/ TickerReads \/ TickerTicks
    \/ \E r \in Roots \ {Anchor}, now \in Readings, elected \in BOOLEAN : ImportBlock(r, now, elected)
    \/ \E a \in Votes, V \in SUBSET Validators, fromBlock \in BOOLEAN : OnAttestation(a, V, fromBlock)
    \/ \E V \in SUBSET Equivocators : OnAttesterSlashing(V)
    \/ \E r \in Judged : ApplyInvalidPayload(r)

Spec == Init /\ [][Next]_vars

-----------------------------------------------------------------------------
(* Properties. *)

(* Every variable keeps its type. *)
TypeOK == store \in Store /\ clock \in Nat /\ reading \in Nat \cup {NoReading}

(* The justified and the finalized checkpoint are promoted independently of each other, from  *)
(* different blocks and at different times; still justification is never behind finality,     *)
(* and what is realized is never ahead of what is unrealized.                                 *)
CheckpointsOrdered ==
    /\ store.finalized.epoch <= store.justified.epoch
    /\ store.unrealizedF.epoch <= store.unrealizedJ.epoch
    /\ store.justified.epoch <= store.unrealizedJ.epoch
    /\ store.finalized.epoch <= store.unrealizedF.epoch

(* The block get_head starts from lies on the finalized chain. *)
JustifiedOnFinalizedChain ==
    /\ store.justified.root \in Roots
    /\ store.finalized.root \in Chain[store.justified.root]

(* Finality is never taken back: the new finalized block descends from the old one.           *)
FinalityNeverReverts ==
    [][/\ store'.finalized.epoch >= store.finalized.epoch
       /\ store.finalized.root \in Chain[store'.finalized.root]]_vars

(* "applies unrealized checkpoints at epoch boundaries" (on_tick_per_slot): no block of an    *)
(* epoch that is over, as store.time sees it, justifies more than the store has realized.     *)
PulledUp ==
    \A r \in store.blocks \ {Anchor} :
        Epoch(Slot[r]) < Epoch(store.time) => UnrealizedJ[r].epoch <= store.justified.epoch

(* The proposer boost goes to a block of the store and is gone when the next slot begins, but *)
(* for the time the importer spent waiting for the lock.                                      *)
BoostIsFresh ==
    store.boost # Zero => /\ store.boost \in store.blocks
                          /\ store.time <= Slot[store.boost] + MaxDelay

(* get_head gives a block that the store has, on the finalized chain, and never one that is   *)
(* INVALID or builds on an INVALID block above the base, whatever the votes say.              *)
HeadIsSound ==
    LET head == GetHead(store)
        base == EffectiveBase(store)
    IN  /\ head \in store.blocks
        /\ store.finalized.root \in Chain[head] /\ base \in Chain[head]
        /\ head # base => \A r \in Chain[head] \ Chain[base] : store.status[r] # "Invalid"
=============================================================================
