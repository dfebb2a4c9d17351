-------------------------- MODULE MCBlockPipeline --------------------------
(***************************************************************************)
(* Peers follow the chain 1-2-3-5; block 4 is another child of 2.  Gossip  *)
(* missed block 2 and may deliver 3, 4 and 5 in any order; 5 carries       *)
(* commitments, and the wall clock starts a slot before it.  The lookup    *)
(* queue holds one request.  Three blocks can wait for a parent, two fit.  *)
(***************************************************************************)
EXTENDS BlockPipeline

CONSTANTS p1, random, b1

MCRoots == 1..5
MCParent == [r \in 2..5 |-> <<1, 1, 2, 2, 3>>[r]]
MCSlot == [r \in MCRoots |-> r - 1]
MCCanonical == {2, 3, 5}
MCGossiped == {3, 4, 5}
MCPeers == {p1}
MCFrom == [r \in MCGossiped |-> p1]
MCBlobs == {5}
MCSidecars == {b1}
=============================================================================
