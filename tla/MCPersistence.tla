--------------------------- MODULE MCPersistence ---------------------------
(***************************************************************************)
(* Two slots per epoch.  The chain 1-2-3-4-5-6-7 finalizes block 2 (epoch  *)
(* 1) in block 6 and block 4 (epoch 2) when the clock passes block 7.      *)
(* Block 8 is a rival of 3 for slot 3.  The node syncs from genesis at     *)
(* slot 6.                                                                 *)
(***************************************************************************)
EXTENDS Persistence

CONSTANTS i1, i2

MCRoots == 1..8
MCParent == <<0, 1, 2, 3, 4, 5, 6, 2>>
MCSlot == <<0, 2, 3, 4, 5, 6, 7, 3>>
MCChain == [r \in MCRoots |-> IF r = 8 THEN {1, 2, 8} ELSE 1..r]
cp(e, r) == [epoch |-> e, root |-> r]
MCJustified == <<cp(0, 1), cp(0, 1), cp(0, 1), cp(1, 2), cp(1, 2), cp(2, 4), cp(2, 4), cp(0, 1)>>
MCFinalized == <<cp(0, 1), cp(0, 1), cp(0, 1), cp(0, 1), cp(0, 1), cp(1, 2), cp(1, 2), cp(0, 1)>>
MCUnrealizedJ == <<cp(0, 1), cp(0, 1), cp(1, 2), cp(1, 2), cp(2, 4), cp(2, 4), cp(3, 6), cp(0, 1)>>
MCUnrealizedF == <<cp(0, 1), cp(0, 1), cp(0, 1), cp(0, 1), cp(1, 2), cp(1, 2), cp(2, 4), cp(0, 1)>>
MCValidators == {}
MCBalance == [v \in MCValidators |-> 0]
MCImporters == {i1, i2}
MCFetched == [i \in MCImporters |-> IF i = i1 THEN 2..7 ELSE {8}]
=============================================================================
