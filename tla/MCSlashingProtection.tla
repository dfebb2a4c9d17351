------------------------ MODULE MCSlashingProtection ------------------------
(* The instance of SlashingProtection that TLC checks. *)
EXTENDS SlashingProtection

CONSTANTS k1, d1, d2

MCKeys == {k1}
MCData == {d1, d2}
MCHalf == 4

Block(s, d) == [slot |-> s, data |-> d]
Vote(s, t, d) == [source |-> s, target |-> t, data |-> d]

(* Two proposals for one slot, one for the next. *)
MCBlockMsg == {Block(1, d1), Block(1, d2), Block(2, d1)}

(* A double vote, a vote that surrounds another, one with an old source, one with an old target. *)
MCAttMsg == {Vote(0, 1, d1), Vote(1, 2, d1), Vote(1, 2, d2), Vote(0, 3, d1), Vote(2, 3, d1)}

(* A watermark-only block record. *)
MCFileBlocks == {[pk |-> k1, slot |-> 2, root |-> NoRoot]}

(* The surrounding vote, with its root; a watermark-only record; a record whose target does   *)
(* not fit the signed column.                                                                 *)
MCFileAtts ==
    {[pk |-> k1, source |-> 0, target |-> 3, root |-> Vote(0, 3, d1)],
     [pk |-> k1, source |-> 1, target |-> 1, root |-> NoRoot],
     [pk |-> k1, source |-> 0, target |-> 7, root |-> NoRoot]}
=============================================================================
