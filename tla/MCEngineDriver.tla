--------------------------- MODULE MCEngineDriver ---------------------------
(***************************************************************************)
(* One slot per epoch.  The chain 1-2-3 finalizes block 2 in block 3; 4 is *)
(* a rival of 3 with an invalid payload and the higher root.               *)
(***************************************************************************)
EXTENDS EngineDriver

CONSTANTS i1, i2

MCRoots == 1..4
MCParent == <<0, 1, 2, 2>>
MCSlot == <<0, 1, 2, 2>>
MCChain == <<{1}, {1, 2}, {1, 2, 3}, {1, 2, 4}>>
cp(e, r) == [epoch |-> e, root |-> r]
MCJustified == <<cp(0, 1), cp(0, 1), cp(1, 2), cp(1, 2)>>
MCFinalized == [r \in MCRoots |-> cp(0, 1)]
MCUnrealizedJ == <<cp(0, 1), cp(1, 2), cp(2, 3), cp(1, 2)>>
MCUnrealizedF == <<cp(0, 1), cp(0, 1), cp(1, 2), cp(0, 1)>>
MCValidators == {}
MCBalance == [v \in MCValidators |-> 0]
MCImporters == {i1, i2}
MCFetched == [i \in MCImporters |-> IF i = i1 THEN {2, 3} ELSE {4}]
MCBad == {4}
=============================================================================
