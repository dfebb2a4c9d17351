---------------------- MODULE SlashingProtectionProofs ----------------------
(***************************************************************************)
(* Proofs about SlashingProtection for every set of keys, messages and     *)
(* interchange records and every column width.                             *)
(***************************************************************************)
EXTENDS SlashingProtection, TLAPS

(* The inductive invariant: what is signed has a row, a rooted row is filed under its message, *)
(* and rooted rows are pairwise safe.                                                          *)
IInv == TypeOK /\ RowsMatchRoots /\ RowsCompatible /\ RecordedBeforeSigned

(* The cast to the signed column stays within the column, and is the identity on duties. *)
LEMMA CastToColumn ==
    /\ \A x \in 0..(2 * Half - 1) : AsI64(x) \in (-Half)..(Half - 1)
    /\ \A x \in 0..(Half - 1) : AsI64(x) = x
BY WidthAssumption DEF AsI64

(* Reading back a column value gives a u64. *)
LEMMA CastFromColumn ==
    \A x \in (-Half)..(Half - 1) : AsU64(x) \in 0..(2 * Half - 1)
BY WidthAssumption DEF AsU64

(* Slashable is symmetric. *)
LEMMA SlashableSymmetric ==
    ASSUME NEW m, NEW n PROVE Slashable(m, n) <=> Slashable(n, m)
BY Zenon DEF Slashable, Double, Surrounds

(* A vote the database newly accepts is not slashable against any rooted row of its key.       *)
LEMMA NewAttestationIsSafe ==
    ASSUME TypeOK, RowsMatchRoots,
           NEW k \in Keys, NEW m \in AttMsg, NewAttestation(k, m),
           NEW r \in blocks \cup atts, r.pk = k, r.root # NoRoot
    PROVE  ~Slashable(r.root, m)
<1>1. CASE r \in blocks
  <2>1. r.root \in BlockMsg
    BY <1>1 DEF TypeOK, BlockRow
  <2> QED BY <2>1, RootAssumption DEF Slashable, Double, Surrounds
<1>2. CASE r \in atts
  <2>1. /\ r.root \in AttMsg /\ r.source = r.root.source /\ r.target = r.root.target
        /\ r.root.source \in 0..(Half - 1) /\ r.root.target \in 0..(Half - 1)
    BY <1>2, DutyAssumption DEF TypeOK, AttRow, RowsMatchRoots
  <2>2. /\ m.source \in 0..(Half - 1) /\ m.target \in 0..(Half - 1)
        /\ AsI64(m.source) = m.source /\ AsI64(m.target) = m.target
    BY DutyAssumption, CastToColumn
  <2>3. r.target # m.target
    BY <1>2, <2>2 DEF NewAttestation, RowsAtTarget, AttRows
  <2>4. ~(m.source < r.source /\ m.target > r.target) /\ ~(m.source > r.source /\ m.target < r.target)
    BY <1>2, <2>2 DEF NewAttestation, SurroundRows, AttRows
  <2>5. r.root \notin BlockMsg /\ m \notin BlockMsg
    BY <2>1, RootAssumption
  <2> QED BY <2>1, <2>2, <2>3, <2>4, <2>5 DEF Slashable, Double, Surrounds
<1> QED BY <1>1, <1>2

(* Likewise for a block. *)
LEMMA NewBlockIsSafe ==
    ASSUME TypeOK, RowsMatchRoots,
           NEW k \in Keys, NEW m \in BlockMsg, NewBlock(k, m),
           NEW r \in blocks \cup atts, r.pk = k, r.root # NoRoot
    PROVE  ~Slashable(r.root, m)
<1>1. CASE r \in atts
  <2>1. r.root \in AttMsg
    BY <1>1 DEF TypeOK, AttRow
  <2> QED BY <2>1, RootAssumption DEF Slashable, Double, Surrounds
<1>2. CASE r \in blocks
  <2>1. r.root \in BlockMsg /\ r.slot = r.root.slot
    BY <1>2 DEF TypeOK, BlockRow, RowsMatchRoots
  <2>2. m.slot \in 0..(Half - 1) /\ AsI64(m.slot) = m.slot
    BY DutyAssumption, CastToColumn
  <2>3. r.slot # m.slot
    BY <1>2, <2>2 DEF NewBlock, RowsAtSlot, BlockRows
  <2>4. r.root \notin AttMsg /\ m \notin AttMsg
    BY <2>1, RootAssumption
  <2> QED BY <2>1, <2>3, <2>4 DEF Slashable, Double, Surrounds
<1> QED BY <1>1, <1>2

(* A message is never slashable against itself. *)
LEMMA NotSlashableAgainstItself ==
    ASSUME NEW m \in BlockMsg \cup AttMsg PROVE ~Slashable(m, m)
<1>1. ~Double(m, m)
  BY DEF Double
<1>2. ~Surrounds(m, m)
  <2>1. CASE m \in AttMsg
    BY <2>1, DutyAssumption DEF Surrounds
  <2>2. CASE m \notin AttMsg
    BY <2>2 DEF Surrounds
  <2> QED BY <2>1, <2>2
<1> QED BY <1>1, <1>2 DEF Slashable

-----------------------------------------------------------------------------
(* The empty tables satisfy the invariant. *)
LEMMA InitEstablishes == Init => IInv
BY DEF Init, IInv, TypeOK, RowsMatchRoots, RowsCompatible, RecordedBeforeSigned, Pending

(* check_and_record_block_proposal preserves it: a repeat has its row, a new row is safe. *)
LEMMA SignBeaconBlockPreserves ==
    ASSUME IInv, NEW k \in Keys, NEW m \in BlockMsg, SignBeaconBlock(k, m)
    PROVE  IInv'
<1> USE DEF IInv
<1>m. m.slot \in 0..(Half - 1) /\ AsI64(m.slot) = m.slot
  BY DutyAssumption, CastToColumn
<1>p. pending' = [pk |-> k, msg |-> m] /\ atts' = atts /\ running' = running
      /\ exported' = exported /\ signed' = signed
  BY DEF SignBeaconBlock
<1> DEFINE new == [pk |-> k, slot |-> AsI64(m.slot), root |-> m]
<1>1. CASE RepeatBlock(k, m) /\ blocks' = blocks
  <2>1. TypeOK'
    BY <1>1, <1>p DEF TypeOK, Message
  <2>2. RowsMatchRoots' /\ RowsCompatible'
    BY <1>1, <1>p DEF RowsMatchRoots, RowsCompatible, Slashable, Double, Surrounds
  <2>3. \E r \in blocks : r.pk = k /\ r.root = m
    BY <1>1 DEF RepeatBlock, RowsAtSlot, BlockRows
  <2>4. RecordedBeforeSigned'
    BY <1>1, <1>p, <2>3 DEF RecordedBeforeSigned, Pending
  <2> QED BY <2>1, <2>2, <2>4
<1>2. CASE NewBlock(k, m) /\ blocks' = blocks \cup {new}
  <2>1. new \in BlockRow /\ new.pk = k /\ new.root = m /\ new.slot = m.slot
    BY <1>m, WidthAssumption DEF BlockRow
  <2>2. TypeOK'
    BY <1>2, <1>p, <2>1 DEF TypeOK, Message
  <2>3. RowsMatchRoots'
    BY <1>2, <1>p, <2>1 DEF RowsMatchRoots
  <2>4. RowsCompatible'
    <3> SUFFICES ASSUME NEW p \in blocks' \cup atts', NEW q \in blocks' \cup atts', p.pk = q.pk,
                        p.root # NoRoot, q.root # NoRoot
                 PROVE  ~Slashable(p.root, q.root)
      BY DEF RowsCompatible, Slashable, Double, Surrounds
    <3>1. CASE p \in blocks \cup atts /\ q \in blocks \cup atts
      BY <3>1 DEF RowsCompatible
    <3>2. CASE p \in blocks \cup atts /\ q = new
      BY <3>2, <1>2, <2>1, NewBlockIsSafe
    <3>3. CASE q \in blocks \cup atts /\ p = new
      BY <3>3, <1>2, <2>1, NewBlockIsSafe, SlashableSymmetric
    <3>4. CASE p = new /\ q = new
      BY <3>4, <2>1, NotSlashableAgainstItself
    <3> QED BY <3>1, <3>2, <3>3, <3>4, <1>2, <1>p
  <2>5. RecordedBeforeSigned'
    BY <1>2, <1>p, <2>1 DEF RecordedBeforeSigned, Pending
  <2> QED BY <2>2, <2>3, <2>4, <2>5
<1> QED BY <1>1, <1>2 DEF SignBeaconBlock

(* check_and_record_attestation preserves it. *)
LEMMA SignAttestationPreserves ==
    ASSUME IInv, NEW k \in Keys, NEW m \in AttMsg, SignAttestation(k, m)
    PROVE  IInv'
<1> USE DEF IInv
<1>m. /\ m.source \in 0..(Half - 1) /\ AsI64(m.source) = m.source
      /\ m.target \in 0..(Half - 1) /\ AsI64(m.target) = m.target
  BY DutyAssumption, CastToColumn
<1>p. pending' = [pk |-> k, msg |-> m] /\ blocks' = blocks /\ running' = running
      /\ exported' = exported /\ signed' = signed
  BY DEF SignAttestation
<1> DEFINE new == [pk |-> k, source |-> AsI64(m.source), target |-> AsI64(m.target), root |-> m]
<1>1. CASE RepeatAttestation(k, m) /\ atts' = atts
  <2>1. TypeOK'
    BY <1>1, <1>p DEF TypeOK, Message
  <2>2. RowsMatchRoots' /\ RowsCompatible'
    BY <1>1, <1>p DEF RowsMatchRoots, RowsCompatible, Slashable, Double, Surrounds
  <2>3. \E r \in atts : r.pk = k /\ r.root = m
    BY <1>1 DEF RepeatAttestation, RowsAtTarget, AttRows
  <2>4. RecordedBeforeSigned'
    BY <1>1, <1>p, <2>3 DEF RecordedBeforeSigned, Pending
  <2> QED BY <2>1, <2>2, <2>4
<1>2. CASE NewAttestation(k, m) /\ atts' = atts \cup {new}
  <2>1. /\ new \in AttRow /\ new.pk = k /\ new.root = m
        /\ new.source = m.source /\ new.target = m.target
    BY <1>m, WidthAssumption DEF AttRow
  <2>2. TypeOK'
    BY <1>2, <1>p, <2>1 DEF TypeOK, Message
  <2>3. RowsMatchRoots'
    BY <1>2, <1>p, <2>1 DEF RowsMatchRoots
  <2>4. RowsCompatible'
    <3> SUFFICES ASSUME NEW p \in blocks' \cup atts', NEW q \in blocks' \cup atts', p.pk = q.pk,
                        p.root # NoRoot, q.root # NoRoot
                 PROVE  ~Slashable(p.root, q.root)
      BY DEF RowsCompatible, Slashable, Double, Surrounds
    <3>1. CASE p \in blocks \cup atts /\ q \in blocks \cup atts
      BY <3>1 DEF RowsCompatible
    <3>2. CASE p \in blocks \cup atts /\ q = new
      BY <3>2, <1>2, <2>1, NewAttestationIsSafe
    <3>3. CASE q \in blocks \cup atts /\ p = new
      BY <3>3, <1>2, <2>1, NewAttestationIsSafe, SlashableSymmetric
    <3>4. CASE p = new /\ q = new
      BY <3>4, <2>1, NotSlashableAgainstItself
    <3> QED BY <3>1, <3>2, <3>3, <3>4, <1>2, <1>p
  <2>5. RecordedBeforeSigned'
    BY <1>2, <1>p, <2>1 DEF RecordedBeforeSigned, Pending
  <2> QED BY <2>2, <2>3, <2>4, <2>5
<1> QED BY <1>1, <1>2 DEF SignAttestation

(* What the signer, a crash or an exit does: signed may only gain the pending message. *)
LEMMA SigningPreserves ==
    ASSUME IInv, SignerAnswers \/ SignerFails \/ Crash \/ ExitAfterExport
    PROVE  IInv'
<1> USE DEF IInv
<1>1. /\ blocks' = blocks /\ atts' = atts /\ pending' = NoMessage
      /\ running' \in BOOLEAN /\ exported' \in {exported, NoMessage}
      /\ signed' \in {signed, signed \cup Pending}
  BY DEF SignerAnswers, SignerFails, Crash, ExitAfterExport, Pending, TypeOK
<1>2. TypeOK'
  BY <1>1 DEF TypeOK, Pending
<1>3. RowsMatchRoots' /\ RowsCompatible'
  BY <1>1 DEF RowsMatchRoots, RowsCompatible, Slashable, Double, Surrounds
<1>4. RecordedBeforeSigned'
  BY <1>1 DEF RecordedBeforeSigned, Pending
<1> QED BY <1>2, <1>3, <1>4

(* The SIGTERM handler's export reads the tables and writes none. *)
LEMMA ExportPreserves ==
    ASSUME IInv, ExportSlashingProtection
    PROVE  IInv'
<1> USE DEF IInv
<1>1. /\ blocks' = blocks /\ atts' = atts /\ running' = running /\ pending' = pending
      /\ signed' = signed
  BY DEF ExportSlashingProtection
<1>2. exported' \in File
  <2> DEFINE B(r) == [r EXCEPT !.slot = AsU64(@)]
             A(r) == [r EXCEPT !.source = AsU64(@), !.target = AsU64(@)]
  <2>1. \A r \in blocks : B(r) \in [pk : Keys, slot : 0..(2 * Half - 1), root : BlockMsg \cup {NoRoot}]
    BY CastFromColumn DEF TypeOK, BlockRow
  <2>2. \A r \in atts : A(r) \in [pk : Keys, source : 0..(2 * Half - 1),
                                  target : 0..(2 * Half - 1), root : AttMsg \cup {NoRoot}]
    BY CastFromColumn DEF TypeOK, AttRow
  <2>3. exported' = [blocks |-> {B(r) : r \in blocks}, atts |-> {A(r) : r \in atts}]
    BY DEF ExportSlashingProtection
  <2> HIDE DEF B, A
  <2> QED BY <2>1, <2>2, <2>3 DEF File
<1>3. TypeOK'
  BY <1>1, <1>2 DEF TypeOK
<1>4. RowsMatchRoots' /\ RowsCompatible' /\ RecordedBeforeSigned'
  BY <1>1 DEF RowsMatchRoots, RowsCompatible, Slashable, Double, Surrounds,
              RecordedBeforeSigned, Pending
<1> QED BY <1>3, <1>4

(* A converted file record is a row with the same key and root, filed as its root says. *)
LEMMA FileBlockRow ==
    ASSUME NEW r \in FileBlocks
    PROVE  /\ BlockRowOf(r) \in BlockRow
           /\ BlockRowOf(r).pk = r.pk /\ BlockRowOf(r).root = r.root
           /\ r.root # NoRoot => BlockRowOf(r).slot = r.root.slot
<1>1. r \in [pk : Keys, slot : 0..(2 * Half - 1), root : BlockMsg \cup {NoRoot}]
  BY FileAssumption
<1>2. BlockRowOf(r).slot = AsI64(r.slot) /\ AsI64(r.slot) \in (-Half)..(Half - 1)
  BY <1>1, CastToColumn DEF BlockRowOf
<1>3. r.root # NoRoot => r.slot \in 0..(Half - 1) /\ r.slot = r.root.slot
  BY <1>1, FileAssumption, DutyAssumption
<1> QED BY <1>1, <1>2, <1>3, CastToColumn DEF BlockRowOf, BlockRow

(* The same for an attestation record. *)
LEMMA FileAttRow ==
    ASSUME NEW r \in FileAtts
    PROVE  /\ AttRowOf(r) \in AttRow
           /\ AttRowOf(r).pk = r.pk /\ AttRowOf(r).root = r.root
           /\ r.root # NoRoot => /\ AttRowOf(r).source = r.root.source
                                 /\ AttRowOf(r).target = r.root.target
<1>1. r \in [pk : Keys, source : 0..(2 * Half - 1), target : 0..(2 * Half - 1),
              root : AttMsg \cup {NoRoot}]
  BY FileAssumption
<1>2. /\ AttRowOf(r).source = AsI64(r.source) /\ AsI64(r.source) \in (-Half)..(Half - 1)
      /\ AttRowOf(r).target = AsI64(r.target) /\ AsI64(r.target) \in (-Half)..(Half - 1)
  BY <1>1, CastToColumn DEF AttRowOf
<1>3. r.root # NoRoot => /\ r.source \in 0..(Half - 1) /\ r.source = r.root.source
                         /\ r.target \in 0..(Half - 1) /\ r.target = r.root.target
  BY <1>1, FileAssumption, DutyAssumption
<1> QED BY <1>1, <1>2, <1>3, CastToColumn DEF AttRowOf, AttRow

(* import_interchange of a faithful file preserves the invariant: INSERT OR IGNORE only adds   *)
(* rows of the file, and keeps every row there was.                                            *)
LEMMA RestartPreserves ==
    ASSUME IInv, NEW F \in SUBSET FileBlocks, NEW G \in SUBSET FileAtts, Restart(F, G)
    PROVE  IInv'
<1> USE DEF IInv
<1> DEFINE FB == {BlockRowOf(r) : r \in F}
           GA == {AttRowOf(r) : r \in G}
<1>1. /\ blocks \subseteq blocks' /\ blocks' \subseteq blocks \cup FB
      /\ atts \subseteq atts' /\ atts' \subseteq atts \cup GA
  BY DEF Restart, InsertOrIgnoreBlocks, InsertOrIgnoreAtts
<1>2. pending' = pending /\ signed' = signed /\ running' = TRUE /\ exported' = NoMessage
  BY DEF Restart
<1>3. ASSUME NEW p \in FB
      PROVE  /\ p \in BlockRow
             /\ \E r \in F : p.pk = r.pk /\ p.root = r.root
             /\ p.root # NoRoot => p.slot = p.root.slot
  <2>1. PICK r \in F : p = BlockRowOf(r)
    OBVIOUS
  <2>2. r \in FileBlocks
    OBVIOUS
  <2>3. p \in BlockRow /\ p.pk = r.pk /\ p.root = r.root /\ (r.root # NoRoot => p.slot = r.root.slot)
    BY <2>1, <2>2, FileBlockRow
  <2> QED BY <2>3
<1>4. ASSUME NEW p \in GA
      PROVE  /\ p \in AttRow
             /\ \E r \in G : p.pk = r.pk /\ p.root = r.root
             /\ p.root # NoRoot => p.source = p.root.source /\ p.target = p.root.target
  <2>1. PICK r \in G : p = AttRowOf(r)
    OBVIOUS
  <2>2. r \in FileAtts
    OBVIOUS
  <2>3. /\ p \in AttRow /\ p.pk = r.pk /\ p.root = r.root
        /\ r.root # NoRoot => p.source = r.root.source /\ p.target = r.root.target
    BY <2>1, <2>2, FileAttRow
  <2> QED BY <2>3
<1> HIDE DEF FB, GA
<1>7. TypeOK'
  BY <1>1, <1>2, <1>3, <1>4 DEF TypeOK
<1>8. RowsMatchRoots'
  BY <1>1, <1>3, <1>4 DEF RowsMatchRoots
<1>9. RowsCompatible'
  <2> SUFFICES ASSUME NEW p \in blocks' \cup atts', NEW q \in blocks' \cup atts', p.pk = q.pk,
                      p.root # NoRoot, q.root # NoRoot
               PROVE  ~Slashable(p.root, q.root)
    BY DEF RowsCompatible, Slashable, Double, Surrounds
  <2>1. \E r \in F \cup G \cup blocks \cup atts : r.pk = p.pk /\ r.root = p.root
    BY <1>1, <1>3, <1>4
  <2>2. \E r \in F \cup G \cup blocks \cup atts : r.pk = q.pk /\ r.root = q.root
    BY <1>1, <1>3, <1>4
  <2>3. Faithful(F, G)
    BY DEF Restart
  <2> QED BY <2>1, <2>2, <2>3 DEF Faithful
<1>10. RecordedBeforeSigned'
  BY <1>1, <1>2 DEF RecordedBeforeSigned, Pending
<1> QED BY <1>7, <1>8, <1>9, <1>10

(* Every step preserves the invariant. *)
LEMMA StepPreserves == IInv /\ [Next]_vars => IInv'
<1> SUFFICES ASSUME IInv, [Next]_vars PROVE IInv'
  OBVIOUS
<1>1. ASSUME NEW k \in Keys, NEW m \in BlockMsg, SignBeaconBlock(k, m) PROVE IInv'
  BY <1>1, SignBeaconBlockPreserves
<1>2. ASSUME NEW k \in Keys, NEW m \in AttMsg, SignAttestation(k, m) PROVE IInv'
  BY <1>2, SignAttestationPreserves
<1>3. CASE SignerAnswers \/ SignerFails \/ Crash \/ ExitAfterExport
  BY <1>3, SigningPreserves
<1>4. CASE ExportSlashingProtection
  BY <1>4, ExportPreserves
<1>5. ASSUME NEW F \in SUBSET FileBlocks, NEW G \in SUBSET FileAtts, Restart(F, G) PROVE IInv'
  BY <1>5, RestartPreserves
<1>6. CASE UNCHANGED vars
  BY <1>6 DEF vars, IInv, TypeOK, RowsMatchRoots, RowsCompatible, Slashable, Double, Surrounds,
              RecordedBeforeSigned, Pending
<1> QED BY <1>1, <1>2, <1>3, <1>4, <1>5, <1>6 DEF Next

(* The invariant gives the property: signed messages have rows, and rows are pairwise safe. *)
LEMMA InvariantSuffices == IInv => NoSlashableSigned
<1> SUFFICES ASSUME IInv, NEW s \in signed, NEW t \in signed, s.pk = t.pk
             PROVE  ~Slashable(s.msg, t.msg)
  BY DEF NoSlashableSigned
<1>1. PICK p \in blocks \cup atts : p.pk = s.pk /\ p.root = s.msg
  BY DEF IInv, RecordedBeforeSigned
<1>2. PICK q \in blocks \cup atts : q.pk = t.pk /\ q.root = t.msg
  BY DEF IInv, RecordedBeforeSigned
<1>3. s.msg # NoRoot /\ t.msg # NoRoot
  BY RootAssumption DEF IInv, TypeOK, Message
<1> QED BY <1>1, <1>2, <1>3 DEF IInv, RowsCompatible

(* The tables, the pending message and the export keep their types: no stored integer ever     *)
(* leaves the signed column.                                                                   *)
THEOREM TypeCorrect == Spec => []TypeOK
<1>1. IInv => TypeOK
  BY DEF IInv
<1> QED BY <1>1, InitEstablishes, StepPreserves, PTL DEF Spec

(* D-commit-before-sign, for every interleaving of signing, crashing and restarting.           *)
THEOREM CommitBeforeSign == Spec => []RecordedBeforeSigned
<1>1. IInv => RecordedBeforeSigned
  BY DEF IInv
<1> QED BY <1>1, InitEstablishes, StepPreserves, PTL DEF Spec

(* A row with a signing root stays filed under that message's own slot or epochs, so that     *)
(* comparing columns compares messages: check_and_record_* and the import write no other row.  *)
THEOREM RowsKeepRoots == Spec => []RowsMatchRoots
<1>1. IInv => RowsMatchRoots
  BY DEF IInv
<1> QED BY <1>1, InitEstablishes, StepPreserves, PTL DEF Spec

(* No two rows of a key are slashable against each other: neither check_and_record_* nor an    *)
(* import of a faithful file into tables that already hold rows ever adds such a row.          *)
THEOREM RowsStayCompatible == Spec => []RowsCompatible
<1>1. IInv => RowsCompatible
  BY DEF IInv
<1> QED BY <1>1, InitEstablishes, StepPreserves, PTL DEF Spec

(* No key ever signs two slashable messages, whatever the duties, crashes, restarts and        *)
(* faithful interchange files are.                                                             *)
THEOREM NeverSlashable == Spec => []NoSlashableSigned
BY InvariantSuffices, InitEstablishes, StepPreserves, PTL DEF Spec

-----------------------------------------------------------------------------
(* A value of the column that is not below the least one of S leaves that least one in place:  *)
(* what was below the watermark of S is below that of S with the value added.                  *)
LEMMA WatermarkStays ==
    ASSUME NEW S \in SUBSET ((-Half)..(Half - 1)), NEW y \in 0..(Half - 1), ~BelowMin(y, S),
           NEW x \in 0..(Half - 1)
    PROVE  /\ BelowMin(x, S) => BelowMin(x, S \cup {y})
           /\ AtOrBelowMin(x, S) => AtOrBelowMin(x, S \cup {y})
<1>1. ASSUME NEW m \in S, IsLeast(m, S) PROVE IsLeast(m, S \cup {y})
  <2>1. ~(y < AsU64(m))
    BY <1>1 DEF BelowMin
  <2>2. m <= y
    BY <2>1, WidthAssumption DEF AsU64
  <2> QED BY <1>1, <2>2 DEF IsLeast
<1> QED BY <1>1 DEF BelowMin, AtOrBelowMin

(* Adding a row adds its value to the values a MIN query ranges over. *)
LEMMA RowValues ==
    ASSUME NEW R, NEW x
    PROVE  /\ {r.slot : r \in R \cup {x}} = {r.slot : r \in R} \cup {x.slot}
           /\ {r.source : r \in R \cup {x}} = {r.source : r \in R} \cup {x.source}
           /\ {r.target : r \in R \cup {x}} = {r.target : r \in R} \cup {x.target}
OBVIOUS

(* Recording a block leaves every refused block refused. *)
LEMMA BlockRefusalIsFinal ==
    ASSUME IInv, NEW k \in Keys, NEW m \in BlockMsg, SignBeaconBlock(k, m),
           NEW j \in Keys, NEW n \in BlockMsg, RefusesBlock(j, n)
    PROVE  RefusesBlock(j, n)'
<1> DEFINE new == [pk |-> k, slot |-> AsI64(m.slot), root |-> m]
           S == {r.slot : r \in BlockRows(j)}
<1>1. CASE blocks' = blocks
  BY <1>1 DEF RefusesBlock, RepeatBlock, NewBlock, BlockBelowLowWatermark, RowsAtSlot, BlockRows
<1>2. CASE NewBlock(k, m) /\ blocks' = blocks \cup {new} /\ j # k
  <2>1. BlockRows(j)' = BlockRows(j)
    BY <1>2 DEF BlockRows
  <2> QED BY <2>1 DEF RefusesBlock, RepeatBlock, NewBlock, BlockBelowLowWatermark, RowsAtSlot
<1>3. CASE NewBlock(k, m) /\ blocks' = blocks \cup {new} /\ j = k
  <2>1. BlockRows(j)' = BlockRows(j) \cup {new}
    BY <1>3 DEF BlockRows
  <2>2. /\ m.slot \in 0..(Half - 1) /\ AsI64(m.slot) = m.slot
        /\ n.slot \in 0..(Half - 1) /\ AsI64(n.slot) = n.slot
    BY DutyAssumption, CastToColumn
  <2>3. S \in SUBSET ((-Half)..(Half - 1)) /\ {r.slot : r \in BlockRows(j)'} = S \cup {m.slot}
    <3>1. \A r \in BlockRows(j) : r.slot \in (-Half)..(Half - 1)
      BY DEF IInv, TypeOK, BlockRow, BlockRows
    <3>2. new.slot = m.slot
      BY <2>2
    <3> HIDE DEF new
    <3>3. {r.slot : r \in BlockRows(j)'} = S \cup {new.slot}
      BY <2>1, RowValues
    <3> QED BY <3>1, <3>2, <3>3
  <2>4. ~BelowMin(m.slot, S)
    BY <1>3 DEF NewBlock, BlockBelowLowWatermark
  <2>5. CASE BlockBelowLowWatermark(j, n)
    <3>1. BelowMin(n.slot, S)
      BY <2>5 DEF BlockBelowLowWatermark
    <3>2. BelowMin(n.slot, S \cup {m.slot})
      BY <2>2, <2>3, <2>4, <3>1, WatermarkStays
    <3>3. BlockBelowLowWatermark(j, n)'
      BY <2>3, <3>2 DEF BlockBelowLowWatermark
    <3> QED BY <3>3 DEF RefusesBlock, RepeatBlock, NewBlock
  <2>6. CASE ~BlockBelowLowWatermark(j, n)
    <3>1. RowsAtSlot(j, n) # {} /\ \A r \in RowsAtSlot(j, n) : r.root # n
      BY <2>6 DEF RefusesBlock, RepeatBlock, NewBlock
    <3>2. m # n
      BY <1>3, <3>1 DEF NewBlock
    <3>3. RowsAtSlot(j, n)' \subseteq RowsAtSlot(j, n) \cup {new}
          /\ RowsAtSlot(j, n) \subseteq RowsAtSlot(j, n)'
      BY <2>1 DEF RowsAtSlot
    <3>4. new.root # n
      BY <3>2
    <3> QED BY <3>1, <3>3, <3>4 DEF RefusesBlock, RepeatBlock, NewBlock
  <2> QED BY <2>5, <2>6
<1> QED BY <1>1, <1>2, <1>3 DEF SignBeaconBlock

(* Recording a vote leaves every refused vote refused. *)
LEMMA AttestationRefusalIsFinal ==
    ASSUME IInv, NEW k \in Keys, NEW m \in AttMsg, SignAttestation(k, m),
           NEW j \in Keys, NEW n \in AttMsg, RefusesAttestation(j, n)
    PROVE  RefusesAttestation(j, n)'
<1> DEFINE new == [pk |-> k, source |-> AsI64(m.source), target |-> AsI64(m.target), root |-> m]
           S == {r.source : r \in AttRows(j)}
           T == {r.target : r \in AttRows(j)}
<1>1. CASE atts' = atts
  BY <1>1 DEF RefusesAttestation, RepeatAttestation, NewAttestation, SourceBelowLowWatermark,
              TargetBelowLowWatermark, RowsAtTarget, SurroundRows, AttRows
<1>2. CASE NewAttestation(k, m) /\ atts' = atts \cup {new} /\ j # k
  <2>1. AttRows(j)' = AttRows(j)
    BY <1>2 DEF AttRows
  <2> QED BY <2>1 DEF RefusesAttestation, RepeatAttestation, NewAttestation,
                      SourceBelowLowWatermark, TargetBelowLowWatermark, RowsAtTarget, SurroundRows
<1>3. CASE NewAttestation(k, m) /\ atts' = atts \cup {new} /\ j = k
  <2>1. AttRows(j)' = AttRows(j) \cup {new}
    BY <1>3 DEF AttRows
  <2>2. /\ m.source \in 0..(Half - 1) /\ AsI64(m.source) = m.source
        /\ m.target \in 0..(Half - 1) /\ AsI64(m.target) = m.target
        /\ n.source \in 0..(Half - 1) /\ n.target \in 0..(Half - 1)
    BY DutyAssumption, CastToColumn
  <2>3. /\ S \in SUBSET ((-Half)..(Half - 1)) /\ {r.source : r \in AttRows(j)'} = S \cup {m.source}
        /\ T \in SUBSET ((-Half)..(Half - 1)) /\ {r.target : r \in AttRows(j)'} = T \cup {m.target}
    <3>1. \A r \in AttRows(j) : r.source \in (-Half)..(Half - 1) /\ r.target \in (-Half)..(Half - 1)
      BY DEF IInv, TypeOK, AttRow, AttRows
    <3>2. new.source = m.source /\ new.target = m.target
      BY <2>2
    <3> HIDE DEF new
    <3>3. {r.source : r \in AttRows(j)'} = S \cup {new.source}
      BY <2>1, RowValues
    <3>4. {r.target : r \in AttRows(j)'} = T \cup {new.target}
      BY <2>1, RowValues
    <3> QED BY <3>1, <3>2, <3>3, <3>4
  <2>4. ~BelowMin(m.source, S)
    BY <1>3 DEF NewAttestation, SourceBelowLowWatermark
  <2>5. ~BelowMin(m.target, T)
    <3>1. ~AtOrBelowMin(m.target, T)
      BY <1>3 DEF NewAttestation, TargetBelowLowWatermark
    <3>2. \A u \in T : AsU64(u) \in 0..(2 * Half - 1)
      BY <2>3, CastFromColumn
    <3> HIDE DEF T
    <3>3. SUFFICES ASSUME NEW u \in T, IsLeast(u, T), m.target < AsU64(u) PROVE FALSE
      BY DEF BelowMin
    <3>4. m.target <= AsU64(u)
      BY <2>2, <3>2, <3>3
    <3> QED BY <3>1, <3>3, <3>4 DEF AtOrBelowMin
  <2>6. CASE SourceBelowLowWatermark(j, n)
    <3>1. BelowMin(n.source, S \cup {m.source})
      BY <2>2, <2>3, <2>4, <2>6, WatermarkStays DEF SourceBelowLowWatermark
    <3>2. SourceBelowLowWatermark(j, n)'
      BY <2>3, <3>1 DEF SourceBelowLowWatermark
    <3> QED BY <3>2 DEF RefusesAttestation, RepeatAttestation, NewAttestation
  <2>7. CASE ~SourceBelowLowWatermark(j, n)
    <3>1. \A r \in RowsAtTarget(j, n) : r.root # n
      BY <2>7 DEF RefusesAttestation, RepeatAttestation
    <3>2. ~NewAttestation(j, n)
      BY DEF RefusesAttestation
    <3>3. new.root # n
      BY <1>3, <3>2
    <3>4. /\ RowsAtTarget(j, n)' \subseteq RowsAtTarget(j, n) \cup {new}
          /\ RowsAtTarget(j, n) \subseteq RowsAtTarget(j, n)'
          /\ SurroundRows(j, n) \subseteq SurroundRows(j, n)'
      BY <2>1 DEF RowsAtTarget, SurroundRows
    <3>5. ~RepeatAttestation(j, n)'
      BY <3>1, <3>3, <3>4 DEF RepeatAttestation
    <3>6. TargetBelowLowWatermark(j, n) => TargetBelowLowWatermark(j, n)'
      <4>1. AtOrBelowMin(n.target, T) => AtOrBelowMin(n.target, T \cup {m.target})
        BY <2>2, <2>3, <2>5, WatermarkStays
      <4> QED BY <2>3, <4>1 DEF TargetBelowLowWatermark
    <3>7. ~NewAttestation(j, n)'
      BY <2>7, <3>2, <3>4, <3>6 DEF NewAttestation
    <3> QED BY <3>5, <3>7 DEF RefusesAttestation
  <2> QED BY <2>6, <2>7
<1> QED BY <1>1, <1>2, <1>3 DEF SignAttestation

(* While the client runs, a message the database refused is refused ever after.               *)
THEOREM RefusalsAreFinal == Spec => RefusalIsFinal
<1> DEFINE Final == running =>
                /\ \A k \in Keys, m \in BlockMsg : RefusesBlock(k, m) => RefusesBlock(k, m)'
                /\ \A k \in Keys, m \in AttMsg : RefusesAttestation(k, m) => RefusesAttestation(k, m)'
<1>1. IInv /\ [Next]_vars => [Final]_vars
  <2> SUFFICES ASSUME IInv, Next, running PROVE Final
    OBVIOUS
  <2>1. ASSUME atts' = atts
        PROVE  \A k \in Keys, m \in AttMsg : RefusesAttestation(k, m) => RefusesAttestation(k, m)'
    BY <2>1 DEF RefusesAttestation, RepeatAttestation, NewAttestation, SourceBelowLowWatermark,
                TargetBelowLowWatermark, RowsAtTarget, SurroundRows, AttRows
  <2>2. ASSUME blocks' = blocks
        PROVE  \A k \in Keys, m \in BlockMsg : RefusesBlock(k, m) => RefusesBlock(k, m)'
    BY <2>2 DEF RefusesBlock, RepeatBlock, NewBlock, BlockBelowLowWatermark, RowsAtSlot, BlockRows
  <2>3. ASSUME NEW k \in Keys, NEW m \in BlockMsg, SignBeaconBlock(k, m) PROVE Final
    <3>1. atts' = atts
      BY <2>3 DEF SignBeaconBlock
    <3> QED BY <2>1, <2>3, <3>1, BlockRefusalIsFinal
  <2>4. ASSUME NEW k \in Keys, NEW m \in AttMsg, SignAttestation(k, m) PROVE Final
    <3>1. blocks' = blocks
      BY <2>4 DEF SignAttestation
    <3> QED BY <2>2, <2>4, <3>1, AttestationRefusalIsFinal
  <2>5. CASE SignerAnswers \/ SignerFails \/ Crash \/ ExportSlashingProtection \/ ExitAfterExport
    <3>1. atts' = atts /\ blocks' = blocks
      BY <2>5 DEF SignerAnswers, SignerFails, Crash, ExportSlashingProtection, ExitAfterExport
    <3> QED BY <2>1, <2>2, <3>1
  <2>6. ASSUME NEW F \in SUBSET FileBlocks, NEW G \in SUBSET FileAtts, Restart(F, G) PROVE FALSE
    BY <2>6 DEF Restart
  <2> QED BY <2>3, <2>4, <2>5, <2>6 DEF Next
<1> QED BY <1>1, InitEstablishes, StepPreserves, PTL DEF Spec, RefusalIsFinal
=============================================================================
