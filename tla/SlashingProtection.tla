------------------------- MODULE SlashingProtection -------------------------
(***************************************************************************)
(* The validator client's EIP-3076 slashing-protection database            *)
(* (crates/pharos-validator/src/slashing.rs), its interchange import and   *)
(* export (interchange.rs) and the two signing paths that consult it       *)
(* (signing.rs), across crashes, restarts and the SIGTERM handler of       *)
(* main.rs.                                                                *)
(*                                                                         *)
(* A signing root is modelled by the message it is the hash of: the hash   *)
(* is assumed collision free.  NoRoot is a record without a root, which an *)
(* interchange file may hold.                                              *)
(***************************************************************************)
EXTENDS Integers, FiniteSets

CONSTANTS
    Keys,           \* validator public keys
    Half,           \* 2^63: the SQLite column holds -Half..(Half - 1)
    Data,           \* what two messages with the same slot or epochs differ in
    BlockMsg,       \* blocks the beacon node may hand to the proposer
    AttMsg,         \* attestation data it may hand to the attester
    FileBlocks,     \* block records an interchange file may hold
    FileAtts,       \* attestation records an interchange file may hold
    NoRoot,         \* the absent signing root
    NoMessage       \* no signature under way

ASSUME WidthAssumption == Half \in Nat \ {0}

(***************************************************************************)
(* "Slots/epochs fit in 63 bits for all practical purposes": duties do;    *)
(* the records of an interchange file need not.                            *)
(***************************************************************************)
ASSUME DutyAssumption ==
    /\ BlockMsg \subseteq [slot : 0..(Half - 1), data : Data]
    /\ AttMsg \subseteq [source : 0..(Half - 1), target : 0..(Half - 1), data : Data]

ASSUME RootAssumption == /\ NoRoot \notin BlockMsg \cup AttMsg
                         /\ BlockMsg \cap AttMsg = {}

ASSUME FileAssumption ==
    /\ FileBlocks \subseteq [pk : Keys, slot : 0..(2 * Half - 1), root : BlockMsg \cup {NoRoot}]
    /\ FileAtts \subseteq [pk : Keys, source : 0..(2 * Half - 1), target : 0..(2 * Half - 1),
                           root : AttMsg \cup {NoRoot}]
    /\ \A r \in FileBlocks : r.root # NoRoot => r.root.slot = r.slot
    /\ \A r \in FileAtts : r.root # NoRoot => r.root.source = r.source /\ r.root.target = r.target

VARIABLES
    blocks,     \* table signed_block
    atts,       \* table signed_attestation
    running,    \* the process is up and in run_vc_loop
    pending,    \* the message that is recorded and not yet signed
    exported,   \* what the SIGTERM handler read from the tables, if it has run
    signed      \* every message a signature was ever produced for (history)

vars == <<blocks, atts, running, pending, exported, signed>>

-----------------------------------------------------------------------------
(* The casts between u64 and the signed 64-bit column. *)

(* Mutant: the value is bound as it is. *)
AsI64NoCast(x) == x

AsI64(x) == IF x < Half THEN x ELSE x - 2 * Half
AsU64(x) == IF x < 0 THEN x + 2 * Half ELSE x

BlockRow == [pk : Keys, slot : (-Half)..(Half - 1), root : BlockMsg \cup {NoRoot}]
AttRow == [pk : Keys, source : (-Half)..(Half - 1), target : (-Half)..(Half - 1),
           root : AttMsg \cup {NoRoot}]

BlockRows(k) == {r \in blocks : r.pk = k}
AttRows(k) == {r \in atts : r.pk = k}

(* The value below which SELECT MIN(...) puts the low watermark: a value is below it when it *)
(* is smaller than the least stored one, read back as u64.                                   *)
IsLeast(x, S) == x \in S /\ \A y \in S : x <= y
BelowMin(x, S) == \E m \in S : IsLeast(m, S) /\ x < AsU64(m)
AtOrBelowMin(x, S) == \E m \in S : IsLeast(m, S) /\ x <= AsU64(m)

-----------------------------------------------------------------------------
(* check_and_record_block_proposal: what it decides for message m of key k. *)

BlockBelowLowWatermark(k, m) == BelowMin(m.slot, {r.slot : r \in BlockRows(k)})
RowsAtSlot(k, m) == {r \in BlockRows(k) : r.slot = AsI64(m.slot)}

RepeatBlock(k, m) ==
    /\ ~BlockBelowLowWatermark(k, m)
    /\ \E r \in RowsAtSlot(k, m) : r.root = m

NewBlock(k, m) ==
    /\ ~BlockBelowLowWatermark(k, m)
    /\ RowsAtSlot(k, m) = {}

(* check_and_record_attestation. *)

SourceBelowLowWatermark(k, m) == BelowMin(m.source, {r.source : r \in AttRows(k)})
TargetBelowLowWatermark(k, m) == AtOrBelowMin(m.target, {r.target : r \in AttRows(k)})
RowsAtTarget(k, m) == {r \in AttRows(k) : r.target = AsI64(m.target)}

(* Mutant: only the first half of the surround query. *)
SurroundRowsOneWay(k, m) ==
    {r \in AttRows(k) : AsI64(m.source) < r.source /\ AsI64(m.target) > r.target}

(* The WHERE clause of the surround query, evaluated on the signed column values. *)
SurroundRows(k, m) ==
    {r \in AttRows(k) :
        \/ AsI64(m.source) < r.source /\ AsI64(m.target) > r.target
        \/ AsI64(m.source) > r.source /\ AsI64(m.target) < r.target}

RepeatAttestation(k, m) ==
    /\ ~SourceBelowLowWatermark(k, m)
    /\ \E r \in RowsAtTarget(k, m) : r.root = m

(* Mutant: no query for a row at the target epoch. *)
NewAttestationNoDoubleCheck(k, m) ==
    /\ ~SourceBelowLowWatermark(k, m)
    /\ ~TargetBelowLowWatermark(k, m)
    /\ SurroundRows(k, m) = {}

NewAttestation(k, m) ==
    /\ ~SourceBelowLowWatermark(k, m)
    /\ ~TargetBelowLowWatermark(k, m)
    /\ RowsAtTarget(k, m) = {}
    /\ SurroundRows(k, m) = {}

-----------------------------------------------------------------------------
Init ==
    /\ blocks = {}
    /\ atts = {}
    /\ running = FALSE
    /\ pending = NoMessage
    /\ exported = NoMessage
    /\ signed = {}

(* sign_beacon_block: the duties of one slot run one after the other, so at most one message *)
(* is under way.  A rejection returns to the loop and changes nothing.                       *)
SignBeaconBlock(k, m) ==
    /\ running /\ pending = NoMessage
    /\ \/ RepeatBlock(k, m) /\ UNCHANGED blocks
       \/ NewBlock(k, m) /\ blocks' = blocks \cup {[pk |-> k, slot |-> AsI64(m.slot), root |-> m]}
    /\ pending' = [pk |-> k, msg |-> m]
    /\ UNCHANGED <<atts, running, exported, signed>>

(* Mutant: the row is not committed before the signer is called. *)
SignAttestationUnrecorded(k, m) ==
    /\ running /\ pending = NoMessage
    /\ RepeatAttestation(k, m) \/ NewAttestation(k, m)
    /\ pending' = [pk |-> k, msg |-> m]
    /\ UNCHANGED <<blocks, atts, running, exported, signed>>

SignAttestation(k, m) ==
    /\ running /\ pending = NoMessage
    /\ \/ RepeatAttestation(k, m) /\ UNCHANGED atts
       \/ /\ NewAttestation(k, m)
          /\ atts' = atts \cup {[pk |-> k, source |-> AsI64(m.source),
                                 target |-> AsI64(m.target), root |-> m]}
    /\ pending' = [pk |-> k, msg |-> m]
    /\ UNCHANGED <<blocks, running, exported, signed>>

(* The message under way, as a set. *)
Pending == {pending} \ {NoMessage}

(* signer.sign returns: the signature exists from here on, published or not. *)
SignerAnswers ==
    /\ running /\ pending # NoMessage
    /\ signed' = signed \cup {pending}
    /\ pending' = NoMessage
    /\ UNCHANGED <<blocks, atts, running, exported>>

(* A remote signer can fail after it has signed, or before. *)
SignerFails ==
    /\ running /\ pending # NoMessage
    /\ signed' \in {signed, signed \cup {pending}}
    /\ pending' = NoMessage
    /\ UNCHANGED <<blocks, atts, running, exported>>

(* Mutant: without synchronous=FULL a crash loses the last commit. *)
CrashLosesCommit ==
    /\ running
    /\ running' = FALSE
    /\ signed' \in {signed, signed \cup Pending}
    /\ pending' = NoMessage
    /\ exported' = NoMessage
    /\ blocks' = {r \in blocks : \A p \in Pending : r.root # p.msg}
    /\ UNCHANGED atts

(* The process dies; a request already sent to a remote signer may still be answered, and an *)
(* export that was not written out is gone.                                                  *)
Crash ==
    /\ running
    /\ running' = FALSE
    /\ signed' \in {signed, signed \cup Pending}
    /\ pending' = NoMessage
    /\ exported' = NoMessage
    /\ UNCHANGED <<blocks, atts>>

(* The SIGTERM task reads both tables under the connection's lock ... *)
ExportSlashingProtection ==
    /\ running /\ exported = NoMessage
    /\ exported' = [blocks |-> {[r EXCEPT !.slot = AsU64(@)] : r \in blocks},
                    atts |-> {[r EXCEPT !.source = AsU64(@), !.target = AsU64(@)] : r \in atts}]
    /\ UNCHANGED <<blocks, atts, running, pending, signed>>

(* ... and calls exit(0) once the file is written; run_vc_loop runs on until then. *)
ExitAfterExport ==
    /\ running /\ exported # NoMessage
    /\ running' = FALSE
    /\ signed' \in {signed, signed \cup Pending}
    /\ pending' = NoMessage
    /\ UNCHANGED <<blocks, atts, exported>>

-----------------------------------------------------------------------------
(* import_interchange at startup. *)

Double(m, n) ==
    m # n /\ \/ m \in BlockMsg /\ n \in BlockMsg /\ m.slot = n.slot
             \/ m \in AttMsg /\ n \in AttMsg /\ m.target = n.target

Surrounds(m, n) ==
    m \in AttMsg /\ n \in AttMsg /\ m.source < n.source /\ n.target < m.target

Slashable(m, n) == Double(m, n) \/ Surrounds(m, n) \/ Surrounds(n, m)

(* A faithful file: its history, with what this database records, is one that can be signed.  *)
(* EIP-3076 leaves this to the operator; the import does not look.                            *)
Faithful(fileBlocks, fileAtts) ==
    \A p, q \in fileBlocks \cup fileAtts \cup blocks \cup atts :
        p.pk = q.pk /\ p.root # NoRoot /\ q.root # NoRoot => ~Slashable(p.root, q.root)

(* INSERT OR IGNORE of the records R, in whatever order the file has them: the first record   *)
(* of a primary key wins, and a row that is already there is kept.                            *)
BlockKey(r) == <<r.pk, r.slot>>
AttKey(r) == <<r.pk, r.target>>

InsertOrIgnoreBlocks(R) ==
    {blocks \cup N : N \in {N \in SUBSET R :
        /\ \A p, q \in N : BlockKey(p) = BlockKey(q) => p = q
        /\ {BlockKey(p) : p \in N} = {BlockKey(p) : p \in R} \ {BlockKey(p) : p \in blocks}}}

InsertOrIgnoreAtts(R) ==
    {atts \cup N : N \in {N \in SUBSET R :
        /\ \A p, q \in N : AttKey(p) = AttKey(q) => p = q
        /\ {AttKey(p) : p \in N} = {AttKey(p) : p \in R} \ {AttKey(p) : p \in atts}}}

BlockRowOf(r) == [r EXCEPT !.slot = AsI64(@)]
(* Mutant: the two epochs are bound in the wrong order. *)
AttRowOfSwapped(r) == [r EXCEPT !.source = AsI64(r.target), !.target = AsI64(r.source)]
AttRowOf(r) == [r EXCEPT !.source = AsI64(@), !.target = AsI64(@)]

Restart(fileBlocks, fileAtts) ==
    /\ ~running
    /\ Faithful(fileBlocks, fileAtts)
    /\ blocks' \in InsertOrIgnoreBlocks({BlockRowOf(r) : r \in fileBlocks})
    /\ atts' \in InsertOrIgnoreAtts({AttRowOf(r) : r \in fileAtts})
    /\ running' = TRUE
    /\ exported' = NoMessage
    /\ UNCHANGED <<pending, signed>>

Next ==
    \/ \E k \in Keys, m \in BlockMsg : SignBeaconBlock(k, m)
    \/ \E k \in Keys, m \in AttMsg : SignAttestation(k, m)
    \/ SignerAnswers
    \/ SignerFails
    \/ Crash
    \/ ExportSlashingProtection
    \/ ExitAfterExport
    \/ \E F \in SUBSET FileBlocks, G \in SUBSET FileAtts : Restart(F, G)

Spec == Init /\ [][Next]_vars

-----------------------------------------------------------------------------
(* Properties. *)

File == [blocks : SUBSET [pk : Keys, slot : 0..(2 * Half - 1), root : BlockMsg \cup {NoRoot}],
         atts : SUBSET [pk : Keys, source : 0..(2 * Half - 1), target : 0..(2 * Half - 1),
                        root : AttMsg \cup {NoRoot}]]
Message == [pk : Keys, msg : BlockMsg \cup AttMsg]

(* Every variable keeps its type: stored integers stay within the signed column. *)
TypeOK ==
    /\ blocks \subseteq BlockRow
    /\ atts \subseteq AttRow
    /\ running \in BOOLEAN
    /\ pending \in Message \cup {NoMessage}
    /\ exported \in File \cup {NoMessage}
    /\ signed \subseteq Message

(* What the database is for: no two messages ever signed with one key, over all crashes,      *)
(* restarts and imports, are slashable (double proposal, double vote, surround vote).         *)
NoSlashableSigned ==
    \A s, t \in signed : s.pk = t.pk => ~Slashable(s.msg, t.msg)

(* D-commit-before-sign: whatever is signed, or about to be, has its row on disk.             *)
RecordedBeforeSigned ==
    \A s \in signed \cup Pending :
        \E r \in blocks \cup atts : r.pk = s.pk /\ r.root = s.msg

(* No two rows with a signing root are slashable against each other; with the previous one    *)
(* this is the inductive reason for NoSlashableSigned.                                        *)
RowsCompatible ==
    \A p, q \in blocks \cup atts :
        p.pk = q.pk /\ p.root # NoRoot /\ q.root # NoRoot => ~Slashable(p.root, q.root)

(* A row that has a signing root is filed under that message's own slot or epochs.            *)
RowsMatchRoots ==
    /\ \A r \in blocks : r.root # NoRoot => r.slot = r.root.slot
    /\ \A r \in atts : r.root # NoRoot => r.source = r.root.source /\ r.target = r.root.target

RefusesBlock(k, m) == ~RepeatBlock(k, m) /\ ~NewBlock(k, m)
RefusesAttestation(k, m) == ~RepeatAttestation(k, m) /\ ~NewAttestation(k, m)

(* A refusal is final: while the client runs, nothing it records makes a message acceptable   *)
(* that it refused before (the low watermarks never fall, no conflict is ever forgotten).     *)
RefusalIsFinal ==
    [][running => /\ \A k \in Keys, m \in BlockMsg : RefusesBlock(k, m) => RefusesBlock(k, m)'
                  /\ \A k \in Keys, m \in AttMsg :
                        RefusesAttestation(k, m) => RefusesAttestation(k, m)']_vars

(* --export-slashing-protection: "Export slashing protection interchange file on clean        *)
(* shutdown" (main.rs): after it, the file holds every message the client signed.             *)
ExportIsComplete ==
    ~running /\ exported # NoMessage =>
        \A s \in signed : \E r \in exported.blocks \cup exported.atts :
                              r.pk = s.pk /\ r.root = s.msg
=============================================================================
