------------------------ MODULE BlockPipelineProofs ------------------------
(***************************************************************************)
(* For every set of blocks, sidecars, peers and queue sizes: the           *)
(* data-availability gate holds, no wake-up of a parked block is lost but  *)
(* the one between the check and the parking, and the fields of the store  *)
(* of waiting blocks agree.                                                *)
(*                                                                         *)
(* None is inductive alone.  A parked block whose sidecars are complete    *)
(* enters the store only if its parent is still there (ParentsKnown), and  *)
(* the sidecar loop tells of one block at a time (Typed).  The store of    *)
(* waiting blocks stays Tidy because the loops ask it only for blocks that *)
(* are on the lookup queue or on the lookup loop's stack (Kept).           *)
(***************************************************************************)
EXTENDS PendingBlocksProofs

Typed ==
    /\ sidecars \in [Roots -> SUBSET Sidecars]
    /\ ghost \in [bypassed : SUBSET Roots, stranded : SUBSET Roots, late : SUBSET Roots,
                  broken : BOOLEAN]
    /\ ingest \in {Idle} \cup [at : {"import", "park"}, root : Blocks]
    /\ backfill \in {Idle, [at |-> "ended"]} \cup [at : {"chunk"}, todo : SUBSET Canonical]
    /\ \A a, b \in arrived : a = b

(* What is parked, or about to be, has its parent in the store. *)
ParentsKnown ==
    /\ \A r \in parked : Parent[r] \in imported
    /\ ingest.at = "park" => Parent[ingest.root] \in imported

IInv == Typed /\ ParentsKnown /\ GateRespected /\ NoOtherLostWakeUp

-----------------------------------------------------------------------------
(* What an outcome tells of its block. *)

LEMMA OutcomeCases ==
    ASSUME NEW r, NEW data
    PROVE  /\ Outcome(r, data) = "ok" => Available(r, data)
           /\ Outcome(r, data) = "not_available" => Parent[r] \in imported /\ ~Available(r, data)
           /\ Parent[r] \in imported /\ Available(r, data) =>
                  Outcome(r, data) \in {"ok", "future_slot"} \/ r \in imported
BY DEF Outcome

(* The DA check sees what is stored, or everything. *)
LEMMA SeenKeeps ==
    ASSUME NEW r, NEW data \in SUBSET Sidecars, NEW seen \in Seen(r, data)
    PROVE  seen \in SUBSET Sidecars /\ data \subseteq seen
BY DEF Seen

(* Writing sidecars takes no block's availability away. *)
LEMMA AvailabilityGrows ==
    ASSUME NEW r, NEW q, NEW seen,
           r \in Roots => seen \in SUBSET Sidecars /\ sidecars[r] \subseteq seen,
           sidecars \in [Roots -> SUBSET Sidecars], Available(q, sidecars[q])
    PROVE  Available(q, [sidecars EXCEPT ![r] = seen][q])
<1>1. CASE q \notin Blobs
  BY <1>1 DEF Available
<1>2. CASE q \in Blobs
  <2>1. q \in Roots
    BY <1>2, PipelineAssumption
  <2> QED BY <1>2, <2>1, Zenon DEF Available
<1> QED BY <1>1, <1>2

(* A block is available after the write just if the check says so of what was written. *)
LEMMA AvailableAsSeen ==
    ASSUME NEW r, NEW seen, sidecars \in [Roots -> SUBSET Sidecars]
    PROVE  Available(r, seen) <=> Available(r, [sidecars EXCEPT ![r] = seen][r])
<1>1. CASE r \notin Blobs
  BY <1>1 DEF Available
<1>2. CASE r \in Blobs
  BY <1>2, PipelineAssumption
<1> QED BY <1>1, <1>2

LEMMA UnsignalledType ==
    ASSUME NEW r, Typed
    PROVE  /\ Unsignalled(r) \in [bypassed : SUBSET Roots, stranded : SUBSET Roots,
                                  late : SUBSET Roots, broken : BOOLEAN]
           /\ Unsignalled(r).bypassed = ghost.bypassed
           /\ Unsignalled(r).late = ghost.late
<1>1. {c \in Waiting(pending) : Parent[c] = r} \subseteq Roots
  BY DEF Waiting
<1> QED BY <1>1 DEF Unsignalled, Typed

-----------------------------------------------------------------------------
LEMMA Initially == Init => IInv
<1> SUFFICES ASSUME Init PROVE IInv
  OBVIOUS
<1>1. Typed
  BY DEF Init, Typed, Idle
<1>2. ParentsKnown
  BY DEF Init, ParentsKnown, Idle
<1>3. GateRespected
  BY PipelineAssumption DEF Init, GateRespected, Available
<1>4. NoOtherLostWakeUp
  BY DEF Init, NoOtherLostWakeUp
<1> QED BY <1>1, <1>2, <1>3, <1>4 DEF IInv

(* The steps that touch none of what IInv relates, but the place of a loop. *)
LEMMA Bystanders ==
    ASSUME IInv,
           UNCHANGED <<imported, sidecars, held, parked, arrived, reinject, ghost, ingest>>,
           backfill' \in {Idle, [at |-> "ended"]} \cup [at : {"chunk"}, todo : SUBSET Canonical]
    PROVE  IInv'
<1>1. Typed'
  BY DEF IInv, Typed
<1>2. ParentsKnown'
  BY DEF IInv, ParentsKnown
<1>3. GateRespected'
  BY DEF IInv, GateRespected, Available
<1>4. NoOtherLostWakeUp'
  BY DEF IInv, NoOtherLostWakeUp, Available
<1> QED BY <1>1, <1>2, <1>3, <1>4 DEF IInv

(* The ingestion loop takes a block. *)
LEMMA Taking ==
    ASSUME IInv, NEW r \in Blocks, ingest = Idle, ingest' = [at |-> "import", root |-> r],
           reinject \ {r} \subseteq reinject',
           UNCHANGED <<imported, sidecars, held, parked, arrived, ghost, backfill>>
    PROVE  IInv'
<1>1. Typed'
  BY DEF IInv, Typed
<1>2. ParentsKnown'
  BY DEF IInv, ParentsKnown
<1>3. GateRespected'
  BY DEF IInv, GateRespected, Available
<1>4. NoOtherLostWakeUp'
  <2> SUFFICES ASSUME NEW q \in parked, Available(q, sidecars[q])
               PROVE  \/ q \in arrived \cup imported \cup held \cup reinject' \cup ghost.late
                      \/ ingest' # Idle /\ ingest'.root = q
    BY DEF NoOtherLostWakeUp, Available
  <2>1. ingest' # Idle /\ ingest'.root = r
    BY DEF Idle
  <2>2. q \in arrived \cup imported \cup held \cup reinject \cup ghost.late
    BY DEF IInv, NoOtherLostWakeUp
  <2> QED BY <2>1, <2>2
<1> QED BY <1>1, <1>2, <1>3, <1>4 DEF IInv

LEMMA Parking == IInv /\ Park => IInv'
<1> SUFFICES ASSUME IInv, Park PROVE IInv'
  OBVIOUS
<1> DEFINE r == ingest.root
<1>1. r \in Blocks /\ r \in Roots
  <2>1. ingest.at = "park"
    BY DEF Park
  <2> QED BY <2>1 DEF IInv, Typed, Idle, Blocks
<1>2. /\ ghost'.bypassed = ghost.bypassed /\ ghost.late \subseteq ghost'.late
      /\ Available(r, sidecars[r]) /\ r \notin arrived => r \in ghost'.late
      /\ ghost' \in [bypassed : SUBSET Roots, stranded : SUBSET Roots, late : SUBSET Roots,
                     broken : BOOLEAN]
  BY <1>1 DEF Park, IInv, Typed
<1>3. Typed'
  BY <1>2 DEF Park, IInv, Typed, Idle
<1>4. ParentsKnown'
  BY DEF Park, IInv, ParentsKnown, Idle
<1>5. GateRespected'
  BY <1>2 DEF Park, IInv, GateRespected, Available
<1>6. NoOtherLostWakeUp'
  <2> SUFFICES ASSUME NEW q \in parked', Available(q, sidecars[q])
               PROVE  q \in arrived \cup imported \cup held \cup reinject \cup ghost'.late
    BY DEF NoOtherLostWakeUp, Available, Park
  <2>1. CASE q = r
    BY <2>1, <1>2
  <2>2. CASE q # r
    BY <2>2, <1>2 DEF Park, IInv, NoOtherLostWakeUp
  <2> QED BY <2>1, <2>2
<1> QED BY <1>3, <1>4, <1>5, <1>6 DEF IInv

LEMMA Evicting == ASSUME NEW r \in Blocks, IInv, EvictParked(r) PROVE IInv'
<1>1. Typed'
  BY DEF EvictParked, IInv, Typed
<1>2. ParentsKnown'
  BY DEF EvictParked, IInv, ParentsKnown
<1>3. GateRespected'
  BY DEF EvictParked, IInv, GateRespected, Available
<1>4. NoOtherLostWakeUp'
  BY DEF EvictParked, IInv, NoOtherLostWakeUp, Available
<1> QED BY <1>1, <1>2, <1>3, <1>4 DEF IInv

LEMMA Holding == ASSUME NEW r \in Blocks, IInv, HoldEnds(r) PROVE IInv'
<1>1. Typed'
  BY DEF HoldEnds, IInv, Typed
<1>2. ParentsKnown'
  BY DEF HoldEnds, IInv, ParentsKnown
<1>3. GateRespected'
  BY DEF HoldEnds, IInv, GateRespected, Available
<1>4. NoOtherLostWakeUp'
  BY DEF HoldEnds, IInv, NoOtherLostWakeUp, Available
<1> QED BY <1>1, <1>2, <1>3, <1>4 DEF IInv

LEMMA Notifying == ASSUME NEW r \in Blocks, IInv, NotifyArrived(r) PROVE IInv'
<1>1. Typed'
  BY DEF NotifyArrived, IInv, Typed
<1>2. ParentsKnown'
  BY DEF NotifyArrived, IInv, ParentsKnown
<1>3. GateRespected'
  BY DEF NotifyArrived, IInv, GateRespected, Available
<1>4. NoOtherLostWakeUp'
  <2>1. arrived = {r}
    BY DEF NotifyArrived, IInv, Typed
  <2> SUFFICES ASSUME NEW q \in parked \ {r}, Available(q, sidecars[q])
               PROVE  \/ q \in imported \cup held \cup reinject \cup ghost.late
                      \/ ingest # Idle /\ ingest.root = q
    BY DEF NoOtherLostWakeUp, Available, NotifyArrived
  <2> QED BY <2>1 DEF IInv, NoOtherLostWakeUp
<1> QED BY <1>1, <1>2, <1>3, <1>4 DEF IInv

LEMMA Receiving == ASSUME NEW r \in Blobs, NEW c \in Sidecars, IInv, GossipSidecar(r, c) PROVE IInv'
<1>1. PICK written \in {{}, {c}} : sidecars' = [sidecars EXCEPT ![r] = sidecars[r] \cup written]
  BY Zenon DEF GossipSidecar, IInv, Typed
<1> DEFINE seen == sidecars[r] \cup written
<1>2. r \in Roots /\ seen \in SUBSET Sidecars /\ sidecars[r] \subseteq seen
  BY PipelineAssumption DEF IInv, Typed
<1>3. \A q : Available(q, sidecars[q]) => Available(q, sidecars'[q])
  BY <1>1, <1>2, AvailabilityGrows DEF IInv, Typed
<1>4. \A q : q # r => sidecars'[q] = sidecars[q]
  BY <1>1, <1>2 DEF IInv, Typed
<1>5. Typed'
  BY <1>1, <1>2 DEF GossipSidecar, IInv, Typed
<1>6. ParentsKnown'
  BY DEF GossipSidecar, IInv, ParentsKnown
<1>7. GateRespected'
  <2> SUFFICES ASSUME NEW q \in imported \ ghost.bypassed PROVE Available(q, sidecars'[q])
    BY DEF GateRespected, GossipSidecar, Available
  <2> QED BY <1>3 DEF IInv, GateRespected
<1>8. NoOtherLostWakeUp'
  <2> SUFFICES ASSUME NEW q \in parked, Available(q, sidecars'[q]), q # r
               PROVE  \/ q \in imported \cup held \cup reinject \cup ghost.late
                      \/ ingest # Idle /\ ingest.root = q
    BY DEF NoOtherLostWakeUp, GossipSidecar, Available
  <2>1. Available(q, sidecars[q])
    BY <1>4
  <2> QED BY <2>1 DEF IInv, NoOtherLostWakeUp, GossipSidecar
<1> QED BY <1>5, <1>6, <1>7, <1>8 DEF IInv

(* An import that was checked against the sidecars it leaves in the database. *)
LEMMA Attempting ==
    ASSUME IInv, NEW r, NEW seen,
           r \in Roots => seen \in SUBSET Sidecars /\ sidecars[r] \subseteq seen,
           sidecars' = [sidecars EXCEPT ![r] = seen],
           imported' = IF Outcome(r, seen) = "ok" THEN imported \cup {r} ELSE imported,
           held' = IF Outcome(r, seen) = "future_slot" THEN held \cup {r} ELSE held,
           UNCHANGED <<parked, arrived, reinject, backfill>>,
           ghost' \in [bypassed : SUBSET Roots, stranded : SUBSET Roots, late : SUBSET Roots,
                       broken : BOOLEAN],
           ghost'.bypassed = ghost.bypassed, ghost'.late = ghost.late,
           \/ ingest' = ingest
           \/ /\ ingest.root = r
              /\ \/ ingest' = Idle
                 \/ /\ r \in Blocks /\ Outcome(r, seen) = "not_available"
                    /\ ingest' = [at |-> "park", root |-> r]
    PROVE  IInv'
<1>1. \A q : Available(q, sidecars[q]) => Available(q, sidecars'[q])
  BY AvailabilityGrows DEF IInv, Typed
<1>2. Available(r, seen) <=> Available(r, sidecars'[r])
  BY AvailableAsSeen DEF IInv, Typed
<1>3. \A q : q # r /\ q \in Roots => sidecars'[q] = sidecars[q]
  BY DEF IInv, Typed
<1>4. imported \subseteq imported' /\ held \subseteq held'
  OBVIOUS
<1>5. Typed'
  <2>1. sidecars' \in [Roots -> SUBSET Sidecars]
    BY Zenon DEF IInv, Typed
  <2>2. ingest' \in {Idle} \cup [at : {"import", "park"}, root : Blocks]
    BY DEF IInv, Typed
  <2> QED BY <2>1, <2>2 DEF IInv, Typed
<1>6. ParentsKnown'
  <2>1. \A q \in parked' : Parent[q] \in imported'
    BY <1>4 DEF IInv, ParentsKnown
  <2>2. ASSUME ingest'.at = "park" PROVE Parent[ingest'.root] \in imported'
    <3>1. CASE ingest' = ingest
      BY <2>2, <3>1, <1>4 DEF IInv, ParentsKnown
    <3>2. CASE ingest' = Idle
      BY <2>2, <3>2 DEF Idle
    <3>3. CASE Outcome(r, seen) = "not_available" /\ ingest' = [at |-> "park", root |-> r]
      BY <3>3, <1>4, OutcomeCases
    <3> QED BY <3>1, <3>2, <3>3
  <2> QED BY <2>1, <2>2 DEF ParentsKnown
<1>7. GateRespected'
  <2> SUFFICES ASSUME NEW q \in imported' \ ghost.bypassed PROVE Available(q, sidecars'[q])
    BY DEF GateRespected, Available
  <2>1. CASE q \in imported
    BY <2>1, <1>1 DEF IInv, GateRespected
  <2>2. CASE q \notin imported
    <3>1. q = r /\ Outcome(r, seen) = "ok"
      BY <2>2
    <3> QED BY <3>1, <1>2, OutcomeCases
  <2> QED BY <2>1, <2>2
<1>8. NoOtherLostWakeUp'
  <2> SUFFICES ASSUME NEW q \in parked, Available(q, sidecars'[q])
               PROVE  \/ q \in arrived \cup imported' \cup held' \cup reinject \cup ghost.late
                      \/ ingest' # Idle /\ ingest'.root = q
    BY DEF NoOtherLostWakeUp, Available
  <2>1. CASE q = r
    <3>1. Parent[r] \in imported /\ Available(r, seen)
      BY <2>1, <1>2 DEF IInv, ParentsKnown
    <3>2. Outcome(r, seen) \in {"ok", "future_slot"} \/ r \in imported
      BY <3>1, OutcomeCases
    <3> QED BY <3>2, <2>1, <1>4
  <2>2. CASE q # r
    <3>1. Available(q, sidecars[q])
      <4>1. CASE q \in Blobs
        BY <4>1, <2>2, <1>3, PipelineAssumption
      <4>2. CASE q \notin Blobs
        BY <4>2 DEF Available
      <4> QED BY <4>1, <4>2
    <3>2. \/ q \in arrived \cup imported \cup held \cup reinject \cup ghost.late
          \/ ingest # Idle /\ ingest.root = q
      BY <3>1 DEF IInv, NoOtherLostWakeUp
    <3> QED BY <3>2, <2>2, <1>4
  <2> QED BY <2>1, <2>2
<1> QED BY <1>5, <1>6, <1>7, <1>8 DEF IInv

LEMMA IngestSucceeding == IInv /\ IngestSucceeds => IInv'
<1> SUFFICES ASSUME IInv, IngestSucceeds PROVE IInv'
  OBVIOUS
<1> DEFINE r == ingest.root
<1>1. r \in Roots
  <2>1. ingest.at = "import"
    BY DEF IngestSucceeds
  <2> QED BY <2>1 DEF IInv, Typed, Idle, Blocks
<1>2. PICK seen \in Seen(r, sidecars[r]) :
          Outcome(r, seen) = "ok" /\ sidecars' = [sidecars EXCEPT ![r] = seen]
  BY Zenon DEF IngestSucceeds
<1>3. seen \in SUBSET Sidecars /\ sidecars[r] \subseteq seen
  BY <1>1, SeenKeeps DEF IInv, Typed
<1>4. ghost' = ghost \/ ghost' = Unsignalled(r)
  BY DEF IngestSucceeds
<1>5. /\ ghost' \in [bypassed : SUBSET Roots, stranded : SUBSET Roots, late : SUBSET Roots,
                     broken : BOOLEAN]
      /\ ghost'.bypassed = ghost.bypassed /\ ghost'.late = ghost.late
  BY <1>4, UnsignalledType DEF IInv, Typed
<1>6. /\ imported' = imported \cup {r} /\ ingest' = Idle /\ held' = held
      /\ UNCHANGED <<parked, arrived, reinject, backfill>>
  BY DEF IngestSucceeds
<1> HIDE DEF r
<1>7. Outcome(r, seen) # "future_slot" /\ ingest.root = r
  BY <1>2 DEF r
<1> QED BY <1>2, <1>3, <1>5, <1>6, <1>7, Attempting, Zenon

LEMMA IngestRefusing == IInv /\ IngestRefused => IInv'
<1> SUFFICES ASSUME IInv, IngestRefused PROVE IInv'
  OBVIOUS
<1> DEFINE r == ingest.root
<1>1. r \in Roots /\ r \in Blocks
  <2>1. ingest.at = "import"
    BY DEF IngestRefused
  <2> QED BY <2>1 DEF IInv, Typed, Idle, Blocks
<1>2. PICK seen \in Seen(r, sidecars[r]) :
          /\ Outcome(r, seen) # "ok" /\ sidecars' = [sidecars EXCEPT ![r] = seen]
          /\ ingest' = IF Outcome(r, seen) = "not_available" THEN [at |-> "park", root |-> r]
                       ELSE Idle
          /\ held' = IF Outcome(r, seen) = "future_slot" THEN held \cup {r} ELSE held
  BY Zenon DEF IngestRefused
<1>3. seen \in SUBSET Sidecars /\ sidecars[r] \subseteq seen
  BY <1>1, SeenKeeps DEF IInv, Typed
<1>4. UNCHANGED <<imported, ghost, parked, arrived, reinject, backfill>>
  BY DEF IngestRefused
<1>5. ghost' \in [bypassed : SUBSET Roots, stranded : SUBSET Roots, late : SUBSET Roots,
                  broken : BOOLEAN]
  BY <1>4 DEF IInv, Typed
<1>6. ingest.root = r
  OBVIOUS
<1> HIDE DEF r
<1> QED BY <1>1, <1>2, <1>3, <1>4, <1>5, <1>6, Attempting, Zenon

LEMMA LookupAttempting == IInv /\ LookupImports => IInv'
<1> SUFFICES ASSUME IInv, LookupImports PROVE IInv'
  OBVIOUS
<1> DEFINE r == IF lookup.at = "replay" THEN Head(lookup.todo) ELSE lookup.root
<1>1. PICK served \in SUBSET Sidecars, stored \in BOOLEAN :
      \E data \in Seen(r, sidecars[r] \cup served) :
          /\ sidecars' = [sidecars EXCEPT ![r] = data]
          /\ imported' = IF Outcome(r, data) = "ok" THEN imported \cup {r} ELSE imported
          /\ held' = IF Outcome(r, data) = "future_slot" THEN held \cup {r} ELSE held
          /\ ghost' = ghost \/ ghost' = Unsignalled(r)
  BY Zenon DEF LookupImports
<1>2. PICK seen \in Seen(r, sidecars[r] \cup served) :
          /\ sidecars' = [sidecars EXCEPT ![r] = seen]
          /\ imported' = IF Outcome(r, seen) = "ok" THEN imported \cup {r} ELSE imported
          /\ held' = IF Outcome(r, seen) = "future_slot" THEN held \cup {r} ELSE held
          /\ ghost' = ghost \/ ghost' = Unsignalled(r)
  BY <1>1, Zenon
<1>3. UNCHANGED <<ingest, parked, arrived, reinject, backfill>>
  BY DEF LookupImports
<1> HIDE DEF r
<1>4. ASSUME r \in Roots PROVE seen \in SUBSET Sidecars /\ sidecars[r] \subseteq seen
  <2>1. sidecars[r] \cup served \in SUBSET Sidecars
    BY <1>4 DEF IInv, Typed
  <2> QED BY <2>1, SeenKeeps
<1>5. /\ ghost' \in [bypassed : SUBSET Roots, stranded : SUBSET Roots, late : SUBSET Roots,
                     broken : BOOLEAN]
      /\ ghost'.bypassed = ghost.bypassed /\ ghost'.late = ghost.late
  BY <1>2, UnsignalledType DEF IInv, Typed
<1> QED BY <1>2, <1>3, <1>4, <1>5, Attempting, Zenon

(* The backfill loop checks nothing, and says so in `bypassed`. *)
LEMMA Backfilling == IInv /\ BackfillImports => IInv'
<1> SUFFICES ASSUME IInv, BackfillImports PROVE IInv'
  OBVIOUS
<1>1. backfill.todo \subseteq Canonical /\ backfill \in [at : {"chunk"}, todo : SUBSET Canonical]
  BY DEF BackfillImports, IInv, Typed, Idle
<1>2. PICK r \in backfill.todo :
      \/ /\ backfill' \in {Idle, [backfill EXCEPT !.todo = backfill.todo \ {r}]}
         /\ UNCHANGED <<imported, ghost>>
      \/ /\ imported' = imported \cup {r}
         /\ backfill' \in {Idle, [backfill EXCEPT !.todo = backfill.todo \ {r}], [at |-> "ended"]}
         /\ \E g \in {ghost, Unsignalled(r)} :
               LET bypassed == g.bypassed \cup IF Available(r, sidecars[r]) THEN {} ELSE {r}
               IN  \/ ghost' = [g EXCEPT !.bypassed = bypassed]
                   \/ ghost' = [g EXCEPT !.bypassed = bypassed, !.broken = TRUE]
  BY Zenon DEF BackfillImports
<1>3. UNCHANGED <<sidecars, held, parked, arrived, reinject, ingest>>
  BY DEF BackfillImports
<1>4. backfill' \in {Idle, [at |-> "ended"]} \cup [at : {"chunk"}, todo : SUBSET Canonical]
  BY <1>1, <1>2
<1>5. CASE UNCHANGED <<imported, ghost>>
  BY <1>3, <1>4, <1>5, Bystanders
<1>6. CASE ~UNCHANGED <<imported, ghost>>
  <2>1. r \in Roots
    BY <1>1, PipelineAssumption
  <2>2. /\ ghost' \in [bypassed : SUBSET Roots, stranded : SUBSET Roots, late : SUBSET Roots,
                       broken : BOOLEAN]
        /\ ghost'.late = ghost.late
        /\ ghost'.bypassed = ghost.bypassed \cup IF Available(r, sidecars[r]) THEN {} ELSE {r}
    <3>1. PICK g \in {ghost, Unsignalled(r)} :
              LET bypassed == g.bypassed \cup IF Available(r, sidecars[r]) THEN {} ELSE {r}
              IN  \/ ghost' = [g EXCEPT !.bypassed = bypassed]
                  \/ ghost' = [g EXCEPT !.bypassed = bypassed, !.broken = TRUE]
      BY <1>2, <1>6
    <3>2. /\ g \in [bypassed : SUBSET Roots, stranded : SUBSET Roots, late : SUBSET Roots,
                    broken : BOOLEAN]
          /\ g.bypassed = ghost.bypassed /\ g.late = ghost.late
      BY UnsignalledType DEF IInv, Typed
    <3> DEFINE more == g.bypassed \cup IF Available(r, sidecars[r]) THEN {} ELSE {r}
    <3>3. more \in SUBSET Roots
      BY <3>2, <2>1
    <3>4. more = ghost.bypassed \cup IF Available(r, sidecars[r]) THEN {} ELSE {r}
      BY <3>2
    <3>5. \/ ghost' = [g EXCEPT !.bypassed = more]
          \/ ghost' = [g EXCEPT !.bypassed = more, !.broken = TRUE]
      BY <3>1
    <3> HIDE DEF more
    <3>6. /\ ghost' \in [bypassed : SUBSET Roots, stranded : SUBSET Roots, late : SUBSET Roots,
                         broken : BOOLEAN]
          /\ ghost'.late = g.late /\ ghost'.bypassed = more
      BY <3>2, <3>3, <3>5, Zenon
    <3> QED BY <3>2, <3>4, <3>6
  <2>3. imported' = imported \cup {r}
    BY <1>2, <1>6
  <2>4. Typed'
    BY <2>2, <1>3, <1>4 DEF IInv, Typed
  <2>5. ParentsKnown'
    BY <2>3, <1>3 DEF IInv, ParentsKnown
  <2>6. GateRespected'
    <3> SUFFICES ASSUME NEW q \in imported' \ ghost'.bypassed PROVE Available(q, sidecars[q])
      BY <1>3 DEF GateRespected, Available
    <3> QED BY <2>2, <2>3 DEF IInv, GateRespected
  <2>7. NoOtherLostWakeUp'
    BY <2>2, <2>3, <1>3 DEF IInv, NoOtherLostWakeUp, Available
  <2> QED BY <2>4, <2>5, <2>6, <2>7 DEF IInv
<1> QED BY <1>5, <1>6

-----------------------------------------------------------------------------
LEMMA Stepping == IInv /\ [Next]_vars => IInv'
<1> SUFFICES ASSUME IInv, [Next]_vars PROVE IInv'
  OBVIOUS
<1> DEFINE Places == {Idle, [at |-> "ended"]} \cup [at : {"chunk"}, todo : SUBSET Canonical]
<1>0. backfill \in Places
  BY DEF IInv, Typed
<1>1. CASE Tick
  BY <1>0, <1>1, Bystanders DEF Tick
<1>2. ASSUME NEW r \in Blocks, GossipBlock(r) PROVE IInv'
  BY <1>2, Taking DEF GossipBlock
<1>3. ASSUME NEW r \in Blocks, GossipOrphan(r) PROVE IInv'
  BY <1>0, <1>3, Bystanders DEF GossipOrphan
<1>4. ASSUME NEW r \in Blocks, TakeReinjected(r) PROVE IInv'
  BY <1>4, Taking DEF TakeReinjected
<1>5. CASE Ingestion
  BY <1>2, <1>3, <1>4, <1>5, IngestSucceeding, IngestRefusing, Parking DEF Ingestion
<1>6. CASE \E r \in Blocks : EvictParked(r) \/ HoldEnds(r) \/ NotifyArrived(r)
  BY <1>6, Evicting, Holding, Notifying
<1>7. CASE \E r \in Blobs, c \in Sidecars : GossipSidecar(r, c)
  BY <1>7, Receiving
<1>8. CASE TakeRequest
  BY <1>0, <1>8, Bystanders DEF TakeRequest
<1>9. CASE LookupFetches
  BY <1>0, <1>9, Bystanders DEF LookupFetches
<1>10. CASE Drain
  BY <1>0, <1>10, Bystanders DEF Drain
<1>11. CASE BackfillFetches
  <2>1. backfill' \in Places
    BY <1>11 DEF BackfillFetches, Missing
  <2> QED BY <2>1, <1>11, Bystanders DEF BackfillFetches
<1>12. CASE BackfillFetchFails \/ UNCHANGED vars
  BY <1>0, <1>12, Bystanders DEF BackfillFetchFails, vars
<1>13. CASE Lookup
  BY <1>8, <1>9, <1>10, <1>13, LookupAttempting DEF Lookup
<1>14. CASE Backfill
  BY <1>11, <1>12, <1>14, Backfilling DEF Backfill
<1> QED BY <1>1, <1>5, <1>6, <1>7, <1>12, <1>13, <1>14 DEF Next

LEMMA Invariance == Spec => []IInv
BY Initially, Stepping, PTL DEF Spec

(* Whatever import paths interleave, a block with commitments is in the fork-choice store only *)
(* with its whole set of sidecars in the database, unless backfill, whose checker answers      *)
(* Irrelevant, brought it in (import_block's DA gate).                                         *)
THEOREM GateHolds == Spec => []GateRespected
<1>1. IInv => GateRespected
  BY DEF IInv
<1> QED BY <1>1, Invariance, PTL

(* A parked block whose sidecars are all there is on its way back, unless it was parked after  *)
(* the last of them was announced (ColumnAwaitingBlocks, BlobAwaitingBlocks).                  *)
THEOREM WakeUpsArrive == Spec => []NoOtherLostWakeUp
<1>1. IInv => NoOtherLostWakeUp
  BY DEF IInv
<1> QED BY <1>1, Invariance, PTL

-----------------------------------------------------------------------------
(* Where the loops and the registries are. *)

Sets ==
    /\ clock \in 0..MaxSlot
    /\ imported \subseteq Roots /\ Anchor \in imported
    /\ heard \in [blocks : SUBSET Blocks, sidecars : SUBSET (Blobs \X Sidecars)]
    /\ reinject \subseteq Blocks /\ held \subseteq Blocks /\ parked \subseteq Blobs
    /\ timers \in [Roots -> Nat]
    /\ arrived \subseteq Blobs
    /\ ingest.at = "park" => ingest.root \in Blobs

(* What waits on the lookup queue: gossip names the sender of an orphan. *)
Requests ==
    [of : {"unknown_parent"}, root : Gossiped] \cup [of : {"parent_imported"}, root : Blocks]

LookupTyped(l) ==
    \/ l = Idle
    \/ l \in [at : {"direct"}, root : Blocks]
    \/ l \in [at : {"fetch", "walk"}, root : Blocks, depth : Nat]
    \/ l \in [at : {"replay"}, stack : Seq(Blocks), todo : Seq(Blocks)]

Queue == lookups \in Seq(Requests) /\ Len(lookups) <= QueueSize

Orphans == LookupTyped(lookup) /\ Tidy(pending) /\ pending.total <= MaxPending

Kept == Sets /\ Queue /\ Orphans

LEMMA KeptIsTyped == IInv /\ Kept => TypeOK
<1> SUFFICES ASSUME IInv, Kept PROVE TypeOK
  OBVIOUS
<1>1. lookup.at \in {"idle", "direct", "fetch", "walk", "replay"}
  BY DEF Kept, Orphans, LookupTyped, Idle
<1>2. pending \in PendingType
  BY DEF Kept, Orphans, Tidy
<1>3. \A i \in DOMAIN lookups : lookups[i] \in [of : {"unknown_parent", "parent_imported"}, root : Blocks]
  <2>1. \A x \in Requests : x \in [of : {"unknown_parent", "parent_imported"}, root : Blocks]
    BY PipelineAssumption DEF Requests, Blocks
  <2>2. lookups \in Seq(Requests)
    BY DEF Kept, Queue
  <2> HIDE DEF Requests
  <2> QED BY <2>1, <2>2
<1> QED BY <1>1, <1>2, <1>3 DEF TypeOK, IInv, Typed, Kept, Sets, Queue

LEMMA KeptStarts == Init => Kept
<1> SUFFICES ASSUME Init PROVE Kept
  OBVIOUS
<1>1. Sets
  BY PipelineAssumption DEF Init, Sets, Idle
<1>2. Queue
  BY PipelineAssumption DEF Init, Queue
<1>3. Orphans
  <2>1. lookup = Idle /\ pending = EmptyPending
    BY DEF Init
  <2>2. 0 <= MaxPending
    BY PendingAssumption
  <2> QED BY <2>1, <2>2, EmptyTidy, Zenon DEF Orphans, LookupTyped
<1> QED BY <1>1, <1>2, <1>3 DEF Kept

LEMMA BlockPlaces ==
    /\ Blocks \subseteq Roots /\ Gossiped \subseteq Blocks /\ Blobs \subseteq Blocks /\ Canonical \subseteq Blocks
    /\ \A r \in Blocks : Parent[r] \in Roots /\ (Parent[r] # Anchor => Parent[r] \in Blocks)
BY PipelineAssumption DEF Blocks

(* try_send keeps to the capacity of the queue. *)
LEMMA SendKeepsQueue ==
    ASSUME Queue, NEW x \in Requests, lookups' = lookups \/ TrySend(x)
    PROVE  Queue'
<1>1. lookups \in Seq(Requests) /\ Len(lookups) <= QueueSize /\ Len(lookups) \in Nat /\ QueueSize \in Nat
  BY PipelineAssumption DEF Queue
<1>2. CASE lookups' = lookups
  BY <1>2 DEF Queue
<1>3. CASE lookups' = Append(lookups, x) /\ Len(lookups) < QueueSize
  BY <1>1, <1>3 DEF Queue
<1> QED BY <1>2, <1>3 DEF TrySend

LEMMA RequestTypes ==
    /\ \A r \in Gossiped : UnknownParent(r) \in Requests
    /\ \A r \in Blocks : ParentImported(r) \in Requests
BY DEF UnknownParent, ParentImported, Requests

LEMMA LookupPlaces ==
    ASSUME NEW l, LookupTyped(l)
    PROVE  /\ l.at \in {"direct", "fetch", "walk"} => l.root \in Blocks
           /\ l.at \in {"fetch", "walk"} => l \in [at : {"fetch", "walk"}, root : Blocks, depth : Nat]
           /\ l.at = "replay" => l.stack \in Seq(Blocks) /\ l.todo \in Seq(Blocks)
<1>1. l = Idle => l.at = "idle"
  BY DEF Idle
<1> QED BY <1>1 DEF LookupTyped

LEMMA ReplayingTyped ==
    ASSUME NEW stack \in Seq(Blocks), NEW todo \in Seq(Blocks)
    PROVE  LookupTyped(Replaying(stack, todo)) /\ Replaying(stack, todo).at = "replay"
BY DEF LookupTyped, Replaying

LEMMA TakeRequestKeeps == ASSUME Kept, TakeRequest PROVE Queue' /\ Orphans'
<1> DEFINE x == Head(lookups)
           r == x.root
<1>1. lookups \in Seq(Requests) /\ lookups # <<>> /\ Len(lookups) <= QueueSize
  BY DEF Kept, Queue, TakeRequest
<1>2. x \in Requests /\ r \in Blocks /\ x.of \in {"unknown_parent", "parent_imported"}
      /\ (x.of = "unknown_parent" => r \in Gossiped)
  <2>1. x \in Requests
    BY <1>1
  <2> HIDE DEF x
  <2> QED BY <2>1, BlockPlaces DEF Requests
<1>3. Queue'
  <2>1. lookups' = Tail(lookups)
    BY DEF TakeRequest
  <2>2. Tail(lookups) \in Seq(Requests) /\ Len(Tail(lookups)) = Len(lookups) - 1 /\ Len(lookups) \in Nat
    BY <1>1
  <2> QED BY <1>1, <2>1, <2>2, PipelineAssumption DEF Queue
<1>4. LookupTyped(lookup')
  <2>1. CASE lookup' = Replaying(<<r>>, <<>>)
    <3>1. <<r>> \in Seq(Blocks) /\ <<>> \in Seq(Blocks)
      BY <1>2
    <3> QED BY <2>1, <3>1, ReplayingTyped, Zenon
  <2>2. CASE lookup' = [at |-> "direct", root |-> r]
    BY <1>2, <2>2 DEF LookupTyped
  <2>3. CASE Parent[r] \notin imported /\ lookup' = [at |-> "fetch", root |-> Parent[r], depth |-> MaxDepth]
    <3>1. Parent[r] \in Blocks
      BY <1>2, <2>3, BlockPlaces DEF Kept, Sets
    <3> QED BY <2>3, <3>1, PipelineAssumption DEF LookupTyped
  <2> QED BY <2>1, <2>2, <2>3 DEF TakeRequest
<1>5. Tidy(pending') /\ pending'.total <= MaxPending
  <2>1. Tidy(pending) /\ pending.total <= MaxPending
    BY DEF Kept, Orphans
  <2>2. CASE pending' = pending
    BY <2>1, <2>2
  <2>3. CASE x.of = "unknown_parent" /\ pending' = Insert(pending, r, From[r])
    <3>1. From[r] \in Peers \cup {RandomPeer}
      BY <1>2, <2>3, PipelineAssumption
    <3> HIDE DEF r
    <3> QED BY <1>2, <2>1, <2>3, <3>1, InsertTidy
  <2> QED BY <2>2, <2>3 DEF TakeRequest
<1> QED BY <1>3, <1>4, <1>5 DEF Orphans

LEMMA DrainKeeps == ASSUME Kept, Drain PROVE Orphans'
<1>1. lookup.stack \in Seq(Blocks) /\ Tidy(pending) /\ pending.total <= MaxPending
  BY LookupPlaces DEF Drain, Kept, Orphans
<1>2. CASE lookup' = Idle /\ pending' = pending
  BY <1>1, <1>2 DEF Orphans, LookupTyped
<1>3. CASE lookup.stack # <<>> /\ ~(lookup' = Idle /\ pending' = pending)
  <2> DEFINE n == Len(lookup.stack)
             q == lookup.stack[n]
             b == pending.by_parent[q]
             todo == [i \in DOMAIN b |-> b[i].root]
  <2>1. n \in Nat \ {0} /\ q \in Blocks /\ q \in Roots /\ SubSeq(lookup.stack, 1, n - 1) \in Seq(Blocks)
    <3>1. n \in Nat \ {0} /\ n \in 1..n
      BY <1>1, <1>3
    <3>2. q \in Blocks
      BY <1>1, <3>1
    <3>3. SubSeq(lookup.stack, 1, n - 1) \in Seq(Blocks)
      BY <1>1, <3>1
    <3> QED BY <3>1, <3>2, <3>3, BlockPlaces
  <2>2. lookup' = Replaying(SubSeq(lookup.stack, 1, n - 1), todo) /\ pending' = DrainChildren(pending, q)
    BY <1>3 DEF Drain
  <2>3. todo \in Seq(Blocks)
    <3>1. Bucket(b, q)
      BY <1>1, <2>1 DEF Tidy
    <3> HIDE DEF b
    <3>2. Len(b) \in Nat /\ DOMAIN b = 1..Len(b) /\ \A i \in 1..Len(b) : b[i].root \in Blocks
      BY <3>1 DEF Bucket
    <3>3. todo \in [1..Len(b) -> Blocks]
      BY <3>2
    <3> HIDE DEF todo
    <3> QED BY <3>2, <3>3
  <2>4. LookupTyped(lookup')
    <3> HIDE DEF todo
    <3> QED BY <2>1, <2>2, <2>3, ReplayingTyped, Zenon
  <2>5. Tidy(pending') /\ pending'.total <= pending.total
    <3> HIDE DEF q
    <3> QED BY <1>1, <2>1, <2>2, DrainTidy
  <2>6. pending.total \in Nat /\ pending'.total \in Nat
    BY <1>1, <2>5 DEF Tidy, PendingType
  <2> QED BY <1>1, <2>4, <2>5, <2>6, PendingAssumption DEF Orphans
<1> QED BY <1>2, <1>3 DEF Drain

(* try_import and where the loop goes after it. *)
LEMMA AttemptKeeps ==
    ASSUME Kept, NEW r \in Blocks, NEW data, NEW attempt,
           LookupImporting, lookup.at # "replay" => lookup.root = r,
           attempt = "missing_parent" => Outcome(r, data) = "missing_parent",
           lookup' = AfterAttempt(r, attempt),
           pending' = IF lookup'.at = "fetch" THEN Insert(pending, r, RandomPeer) ELSE pending
    PROVE  Orphans'
<1>1. LookupTyped(lookup) /\ Tidy(pending) /\ pending.total <= MaxPending
  BY DEF Kept, Orphans
<1>2. LookupTyped(lookup')
  <2>1. CASE lookup.at = "replay"
    <3> DEFINE stack == IF attempt = "ok" THEN Append(lookup.stack, r) ELSE lookup.stack
    <3>1. lookup.stack \in Seq(Blocks) /\ lookup.todo \in Seq(Blocks) /\ lookup.todo # <<>>
      BY <1>1, <2>1, LookupPlaces DEF LookupImporting
    <3>2. stack \in Seq(Blocks) /\ Tail(lookup.todo) \in Seq(Blocks)
      BY <3>1
    <3>3. lookup' = Replaying(stack, Tail(lookup.todo))
      BY <2>1 DEF AfterAttempt
    <3> HIDE DEF stack
    <3> QED BY <3>2, <3>3, ReplayingTyped, Zenon
  <2>2. CASE lookup.at # "replay" /\ attempt = "ok"
    <3>1. <<r>> \in Seq(Blocks) /\ <<>> \in Seq(Blocks)
      OBVIOUS
    <3>2. lookup' = Replaying(<<r>>, <<>>)
      BY <2>2 DEF AfterAttempt
    <3> QED BY <3>1, <3>2, ReplayingTyped, Zenon
  <2>3. CASE lookup.at = "walk" /\ attempt = "missing_parent" /\ lookup.depth > 0
    <3>1. lookup' = [at |-> "fetch", root |-> Parent[r], depth |-> lookup.depth - 1]
      BY <2>3 DEF AfterAttempt
    <3>2. lookup.depth - 1 \in Nat
      BY <1>1, <2>3, LookupPlaces
    <3>3. Parent[r] \notin imported
      BY <2>3 DEF Outcome
    <3>4. Parent[r] \in Blocks
      BY <3>3, BlockPlaces DEF Kept, Sets
    <3> QED BY <3>1, <3>2, <3>4 DEF LookupTyped
  <2>4. CASE lookup' = Idle
    BY <2>4 DEF LookupTyped
  <2> QED BY <2>1, <2>2, <2>3, <2>4 DEF AfterAttempt
<1>3. Tidy(pending') /\ pending'.total <= MaxPending
  BY <1>1, InsertTidy
<1> QED BY <1>2, <1>3 DEF Orphans

LEMMA LookupImportsKeeps == ASSUME IInv, Kept, LookupImports PROVE Sets' /\ Orphans'
<1> DEFINE r == IF lookup.at = "replay" THEN Head(lookup.todo) ELSE lookup.root
<1>1. LookupImporting /\ LookupTyped(lookup)
  BY DEF LookupImports, Kept, Orphans
<1>2. r \in Blocks
  <2>1. CASE lookup.at = "replay"
    <3>1. lookup.todo \in Seq(Blocks) /\ lookup.todo # <<>>
      BY <1>1, <2>1, LookupPlaces DEF LookupImporting
    <3> QED BY <2>1, <3>1
  <2>2. CASE lookup.at # "replay"
    BY <1>1, <2>2, LookupPlaces DEF LookupImporting
  <2> QED BY <2>1, <2>2
<1>3. PICK served \in SUBSET Sidecars, stored \in BOOLEAN :
      \E data \in Seen(r, sidecars[r] \cup served) :
          LET outcome == Outcome(r, data)
              attempt == IF outcome = "ok" /\ ~stored THEN "rejected" ELSE outcome
          IN  /\ imported' = IF outcome = "ok" THEN imported \cup {r} ELSE imported
              /\ held' = IF outcome = "future_slot" THEN held \cup {r} ELSE held
              /\ lookup' = AfterAttempt(r, attempt)
              /\ pending' = IF lookup'.at = "fetch" THEN Insert(pending, r, RandomPeer) ELSE pending
  BY Zenon DEF LookupImports
<1>4. PICK data \in Seen(r, sidecars[r] \cup served) :
          LET outcome == Outcome(r, data)
              attempt == IF outcome = "ok" /\ ~stored THEN "rejected" ELSE outcome
          IN  /\ imported' = IF outcome = "ok" THEN imported \cup {r} ELSE imported
              /\ held' = IF outcome = "future_slot" THEN held \cup {r} ELSE held
              /\ lookup' = AfterAttempt(r, attempt)
              /\ pending' = IF lookup'.at = "fetch" THEN Insert(pending, r, RandomPeer) ELSE pending
  BY <1>3, Zenon
<1>5. lookup.at # "replay" => lookup.root = r
  OBVIOUS
<1> HIDE DEF r
<1> DEFINE outcome == Outcome(r, data)
           attempt == IF outcome = "ok" /\ ~stored THEN "rejected" ELSE outcome
<1>6. /\ lookup' = AfterAttempt(r, attempt)
      /\ pending' = IF lookup'.at = "fetch" THEN Insert(pending, r, RandomPeer) ELSE pending
      /\ imported' \in {imported, imported \cup {r}} /\ held' \in {held, held \cup {r}}
  BY <1>4
<1>7. attempt = "missing_parent" => Outcome(r, data) = "missing_parent"
  OBVIOUS
<1> HIDE DEF attempt
<1>8. Orphans'
  BY <1>1, <1>2, <1>5, <1>6, <1>7, AttemptKeeps
<1>9. Sets'
  <2>1. imported' \subseteq Roots /\ Anchor \in imported' /\ held' \subseteq Blocks
    BY <1>2, <1>6, BlockPlaces, Zenon DEF Kept, Sets
  <2>2. UNCHANGED <<clock, heard, reinject, parked, timers, arrived, ingest>> /\ Sets
    BY Zenon DEF LookupImports, Kept
  <2> QED BY ONLY <2>1, <2>2 DEF Sets
<1> QED BY <1>8, <1>9

LEMMA IngestPlace == ASSUME IInv, ingest.at = "import" PROVE ingest.root \in Blocks
<1>1. ingest \in {Idle} \cup [at : {"import", "park"}, root : Blocks]
  BY Zenon DEF IInv, Typed
<1> QED BY ONLY <1>1, ingest.at = "import" DEF Idle

(* The other steps leave the lookup loop and PendingBlocks alone. *)
LEMMA SetsStep ==
    ASSUME IInv, Kept, Next, ~LookupImports PROVE Sets'
<1>0. Sets
  BY DEF Kept
<1>1. CASE Tick
  <2>1. clock' \in 0..MaxSlot
    BY <1>0, <1>1, PipelineAssumption DEF Tick, Sets
  <2> QED BY <1>0, <1>1, <2>1 DEF Tick, Sets
<1>2. ASSUME NEW r \in Blocks, GossipBlock(r) \/ GossipOrphan(r) \/ TakeReinjected(r) PROVE Sets'
  <2>1. heard' \in [blocks : SUBSET Blocks, sidecars : SUBSET (Blobs \X Sidecars)]
    BY <1>0, <1>2 DEF GossipBlock, GossipOrphan, TakeReinjected, Sets
  <2>2. /\ UNCHANGED <<clock, imported, held, parked, timers, arrived>> /\ reinject' \subseteq reinject
        /\ ingest' = ingest \/ ingest' = [at |-> "import", root |-> r]
    BY <1>2 DEF GossipBlock, GossipOrphan, TakeReinjected
  <2> QED BY ONLY <1>0, <2>1, <2>2 DEF Sets
<1>3. CASE IngestSucceeds
  <2>1. ingest.root \in Blocks
    BY <1>3, IngestPlace, Zenon DEF IngestSucceeds
  <2>2. /\ imported' = imported \cup {ingest.root} /\ ingest'.at # "park"
        /\ UNCHANGED <<clock, heard, reinject, held, parked, timers, arrived>>
    BY <1>3 DEF IngestSucceeds, Idle
  <2>3. imported' \subseteq Roots /\ Anchor \in imported'
    BY <1>0, <2>1, <2>2, BlockPlaces DEF Sets
  <2> QED BY ONLY <1>0, <2>2, <2>3 DEF Sets
<1>4. CASE IngestRefused
  <2>1. ingest.root \in Blocks
    BY <1>4, IngestPlace, Zenon DEF IngestRefused
  <2>2. held' \subseteq Blocks
    BY <1>0, <1>4, <2>1 DEF IngestRefused, Sets
  <2>3. ingest'.at = "park" => ingest'.root \in Blobs
    <3>1. PICK data : ingest' = IF Outcome(ingest.root, data) = "not_available"
                                THEN [at |-> "park", root |-> ingest.root] ELSE Idle
      BY <1>4, Zenon DEF IngestRefused
    <3>2. Outcome(ingest.root, data) = "not_available" => ingest.root \in Blobs
      BY ONLY OutcomeCases DEF Available
    <3> QED BY ONLY <3>1, <3>2 DEF Idle
  <2>4. UNCHANGED <<clock, imported, heard, reinject, parked, timers, arrived>>
    BY <1>4 DEF IngestRefused
  <2> QED BY ONLY <1>0, <2>2, <2>3, <2>4 DEF Sets
<1>5. CASE Park
  <2>1. ingest.root \in Blobs /\ ingest.root \in Roots
    BY <1>0, <1>5, BlockPlaces DEF Park, Sets
  <2>2. timers' \in [Roots -> Nat] /\ parked' \subseteq Blobs
    BY <1>0, <1>5, <2>1 DEF Park, Sets
  <2> QED BY <1>0, <1>5, <2>2 DEF Park, Sets, Idle
<1>6. ASSUME NEW r \in Blocks, EvictParked(r) \/ HoldEnds(r) \/ NotifyArrived(r) PROVE Sets'
  <2>1. timers' \in [Roots -> Nat]
    <3>1. timers[r] \in Nat /\ r \in Roots
      BY <1>0, BlockPlaces DEF Sets
    <3>2. timers' = timers \/ (timers' = [timers EXCEPT ![r] = @ - 1] /\ timers[r] > 0)
      BY <1>6 DEF EvictParked, HoldEnds, NotifyArrived
    <3>3. timers \in [Roots -> Nat]
      BY <1>0 DEF Sets
    <3> QED BY ONLY <3>1, <3>2, <3>3
  <2>2. /\ UNCHANGED <<clock, imported, heard, ingest>> /\ held' \subseteq held /\ parked' \subseteq parked
        /\ reinject' \subseteq reinject \cup {r} /\ arrived' \subseteq arrived
    BY <1>6 DEF EvictParked, HoldEnds, NotifyArrived
  <2> QED BY ONLY <1>0, <2>1, <2>2 DEF Sets
<1>7. ASSUME NEW r \in Blobs, NEW c \in Sidecars, GossipSidecar(r, c) PROVE Sets'
  <2>1. heard' \in [blocks : SUBSET Blocks, sidecars : SUBSET (Blobs \X Sidecars)]
    BY <1>0, <1>7 DEF GossipSidecar, Sets
  <2> QED BY <1>0, <1>7, <2>1 DEF GossipSidecar, Sets
<1>8. CASE TakeRequest \/ LookupFetches \/ Drain
  BY <1>0, <1>8 DEF TakeRequest, LookupFetches, Drain, Sets
<1>9. CASE BackfillFetches \/ BackfillFetchFails
  BY <1>0, <1>9 DEF BackfillFetches, BackfillFetchFails, vars, Sets
<1>10. CASE BackfillImports
  <2>1. /\ imported' = imported \/ \E r \in backfill.todo : imported' = imported \cup {r}
        /\ UNCHANGED <<clock, heard, ingest, reinject, held, parked, timers, arrived>>
    BY <1>10 DEF BackfillImports
  <2>2. backfill.todo \subseteq Roots
    BY <1>10, BlockPlaces DEF BackfillImports, IInv, Typed, Idle
  <2>3. imported' \subseteq Roots /\ Anchor \in imported'
    BY <1>0, <2>1, <2>2 DEF Sets
  <2> QED BY <1>0, <2>1, <2>3 DEF Sets
<1> QED BY <1>1, <1>2, <1>3, <1>4, <1>5, <1>6, <1>7, <1>8, <1>9, <1>10
        DEF Next, Ingestion, Lookup, Backfill

LEMMA QueueStep == ASSUME IInv, Kept, Next PROVE Queue'
<1>0. Queue
  BY DEF Kept
<1>1. CASE lookups' = lookups
  BY <1>0, <1>1 DEF Queue
<1>2. ASSUME NEW r \in Blocks, GossipOrphan(r) PROVE Queue'
  BY <1>0, <1>2, SendKeepsQueue, RequestTypes DEF GossipOrphan, Gossips
<1>3. CASE IngestSucceeds
  <2>1. ingest.root \in Blocks
    BY <1>3, IngestPlace, Zenon DEF IngestSucceeds
  <2>2. lookups' = lookups \/ TrySend(ParentImported(ingest.root))
    BY <1>3 DEF IngestSucceeds
  <2> QED BY <1>0, <2>1, <2>2, SendKeepsQueue, RequestTypes
<1>4. CASE BackfillImports
  <2>1. PICK r \in backfill.todo : lookups' = lookups \/ TrySend(ParentImported(r))
    BY <1>4 DEF BackfillImports
  <2>2. r \in Blocks
    BY <1>4, BlockPlaces DEF BackfillImports, IInv, Typed, Idle
  <2> QED BY <1>0, <2>1, <2>2, SendKeepsQueue, RequestTypes
<1>5. CASE TakeRequest
  BY <1>5, TakeRequestKeeps
<1> QED BY <1>1, <1>2, <1>3, <1>4, <1>5, Zenon
        DEF Next, Ingestion, Lookup, Backfill, Tick, GossipBlock, TakeReinjected, IngestRefused, Park,
            EvictParked, HoldEnds, NotifyArrived, GossipSidecar, LookupFetches, LookupImports, Drain,
            BackfillFetches, BackfillFetchFails, vars

LEMMA OrphansStep == ASSUME IInv, Kept, Next PROVE Orphans'
<1>0. Orphans
  BY DEF Kept
<1>1. CASE UNCHANGED <<lookup, pending>>
  BY <1>0, <1>1 DEF Orphans
<1>2. CASE LookupFetches
  <2>1. LookupTyped(lookup')
    <3>1. lookup \in [at : {"fetch", "walk"}, root : Blocks, depth : Nat]
      BY <1>0, <1>2, LookupPlaces DEF LookupFetches, Orphans
    <3>2. lookup' = Idle \/ lookup' = [lookup EXCEPT !.at = "walk"]
      BY <1>2 DEF LookupFetches
    <3> QED BY <3>1, <3>2 DEF LookupTyped
  <2> QED BY <1>0, <1>2, <2>1 DEF LookupFetches, Orphans
<1> QED BY <1>1, <1>2, TakeRequestKeeps, LookupImportsKeeps, DrainKeeps, Zenon
        DEF Next, Ingestion, Lookup, Backfill, Tick, GossipBlock, GossipOrphan, TakeReinjected,
            IngestSucceeds, IngestRefused, Park, EvictParked, HoldEnds, NotifyArrived, GossipSidecar,
            BackfillFetches, BackfillFetchFails, BackfillImports, vars

LEMMA KeptStays == IInv /\ Kept /\ [Next]_vars => Kept'
<1> SUFFICES ASSUME IInv, Kept, [Next]_vars PROVE Kept'
  OBVIOUS
<1>1. CASE Next
  <2>1. Sets'
    BY <1>1, SetsStep, LookupImportsKeeps
  <2> QED BY <1>1, <2>1, QueueStep, OrphansStep DEF Kept
<1>2. CASE UNCHANGED vars
  BY <1>2 DEF vars, Kept, Sets, Queue, Orphans
<1> QED BY <1>1, <1>2

LEMMA KeptAlways == Spec => [](IInv /\ Kept)
<1>1. Init => IInv /\ Kept
  BY Initially, KeptStarts
<1>2. IInv /\ Kept /\ [Next]_vars => (IInv /\ Kept)'
  BY Stepping, KeptStays
<1> QED BY <1>1, <1>2, PTL DEF Spec

(* The registries, the queue and the position of every loop keep their types; in particular    *)
(* the number of requests on the lookup queue stays within its capacity (lookup_tx), and a     *)
(* block that is parked has commitments (park, of both registries).                            *)
THEOREM TypeCorrect == Spec => []TypeOK
BY KeptAlways, KeptIsTyped, PTL

(* After any sequence of gossip, evictions, lookups and drains the four fields of PendingInner *)
(* tell the same story: total, order and the buckets hold the same blocks, each one once and   *)
(* under its parent, every peer's number is the number of its entries, and both limits hold    *)
(* (insert, drain_children, evict_oldest).                                                     *)
THEOREM PendingStaysConsistent == Spec => []PendingConsistent
<1>1. IInv /\ Kept => PendingConsistent
  BY TidyIsConsistent DEF Kept, Orphans
<1> QED BY <1>1, KeptAlways, PTL
=============================================================================
