---------------------------- MODULE BlockArchive ----------------------------
(***************************************************************************)
(* What the database promises its readers about blocks, whatever the       *)
(* columns, the freezer and the restarts do: a promised block stays        *)
(* readable until another block of the same slot is written, and the       *)
(* finalized epoch on disk never goes back.                                *)
(***************************************************************************)
EXTENDS Naturals

CONSTANTS Roots, Slot

VARIABLES
    kept,       \* blocks that get_block finds
    promised,   \* those of them that may not be deleted
    final       \* finalized epoch on disk

vars == <<kept, promised, final>>

Rivals(r) == {q \in Roots \ {r} : Slot[q] = Slot[r]}

Init == kept = {} /\ promised = {} /\ final = 0

(* A block and a snapshot are written.  The rivals of the block lose their promise. *)
Write(r) ==
    /\ kept' = kept \cup {r}
    /\ promised \ Rivals(r) \subseteq promised' /\ promised' \subseteq promised \cup {r}
    /\ final' \in Nat /\ final <= final'

(* Blocks without a promise may go; others may receive one. *)
Reclaim ==
    /\ kept' \subseteq kept
    /\ promised \subseteq promised' /\ promised' \subseteq kept'
    /\ UNCHANGED final

Next == Reclaim \/ \E r \in Roots : Write(r)

Spec == Init /\ [][Next]_vars
=============================================================================
