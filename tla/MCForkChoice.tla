---------------------------- MODULE MCForkChoice ----------------------------
(***************************************************************************)
(* A tree of two branches over three epochs of two slots.  The branch      *)
(* 1-2-4-5-6-7 justifies epoch 1 in block 5 and epoch 2 in block 7, which  *)
(* finalizes block 4; the branch 1-2-3-8 justifies nothing.                *)
(***************************************************************************)
EXTENDS ForkChoice

CONSTANTS v1, v2

MCRoots == 1..8
MCParent == <<0, 1, 2, 2, 4, 5, 6, 3>>
MCSlot == <<0, 1, 2, 2, 3, 4, 5, 5>>
MCChain == <<{1}, {1, 2}, {1, 2, 3}, {1, 2, 4}, {1, 2, 4, 5}, {1, 2, 4, 5, 6},
             {1, 2, 4, 5, 6, 7}, {1, 2, 3, 8}>>
cp(e, r) == [epoch |-> e, root |-> r]
MCJustified == <<cp(0, 1), cp(0, 1), cp(0, 1), cp(0, 1), cp(0, 1), cp(1, 4), cp(1, 4), cp(0, 1)>>
MCFinalized == [r \in 1..8 |-> cp(0, 1)]
MCUnrealizedJ == <<cp(0, 1), cp(0, 1), cp(0, 1), cp(0, 1), cp(1, 4), cp(1, 4), cp(2, 6), cp(0, 1)>>
MCUnrealizedF == <<cp(0, 1), cp(0, 1), cp(0, 1), cp(0, 1), cp(0, 1), cp(0, 1), cp(1, 4), cp(0, 1)>>
MCValidators == {v1, v2}
MCBalance == [v \in MCValidators |-> IF v = v1 THEN 30 ELSE 20]
MCVotes == {[slot |-> 2, root |-> 3, target |-> cp(1, 3)],
            [slot |-> 4, root |-> 6, target |-> cp(2, 6)]}
MCEquivocators == {v1}
MCJudged == {5}
=============================================================================
