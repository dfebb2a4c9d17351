--------------------------- MODULE PendingBlocks ---------------------------
(***************************************************************************)
(* The bounded store of blocks that wait for their parent (pharos-node:    *)
(* pending_blocks.rs).  Four fields say what waits: the buckets by parent, *)
(* the arrival order, the number per peer and the total.                   *)
(*                                                                         *)
(* A block names its parent, so the pair (parent, block) of the order is   *)
(* the block.  A block that was fetched, not gossiped, is entered under a  *)
(* random peer: each such peer has one entry, and one value stands for     *)
(* them all, outside the count.                                            *)
(***************************************************************************)
EXTENDS Naturals, Sequences, FiniteSets

CONSTANTS
    Roots, Parent,      \* the blocks and their parents
    Peers,              \* peers that gossip blocks
    RandomPeer,         \* PeerId::random()
    MaxPerPeer,         \* MAX_PENDING_PER_PEER
    MaxPending          \* MAX_PENDING_BLOCKS

ASSUME PendingAssumption ==
    /\ RandomPeer \notin Peers
    /\ MaxPerPeer \in Nat \ {0} /\ MaxPending \in Nat \ {0}

Entry == [root : Roots, peer : Peers \cup {RandomPeer}]

EmptyPending ==
    [by_parent |-> [q \in Roots |-> <<>>], per_peer |-> [p \in Peers |-> 0],
     order |-> <<>>, total |-> 0]

(* The elements of a sequence. *)
Values(s) == {s[i] : i \in DOMAIN s}

(* Vec::remove and VecDeque::retain *)
RemoveIndex(s, i) == SubSeq(s, 1, i - 1) \o SubSeq(s, i + 1, Len(s))

RetainExcept(s, out) ==
    LET keep == {i \in DOMAIN s : s[i] \notin out}
        rank(i) == Cardinality({j \in keep : j <= i})
    IN  [k \in 1..Cardinality(keep) |-> s[CHOOSE i \in keep : rank(i) = k]]

(* The bookkeeping for the entries that leave.  A number per peer stops at 0. *)
Released(s, out) ==
    LET leaving(p) == Cardinality({i \in DOMAIN out : out[i].peer = p})
    IN  [s EXCEPT !.total = @ - Len(out),
                  !.per_peer = [p \in Peers |->
                      IF @[p] > leaving(p) THEN @[p] - leaving(p) ELSE 0]]

(* bucket.iter().position *)
Position(bucket, r) ==
    CHOOSE i \in DOMAIN bucket : /\ bucket[i].root = r
                                 /\ \A j \in 1..(i - 1) : bucket[j].root # r

IsIn(bucket, r) == \E i \in DOMAIN bucket : bucket[i].root = r

(* Mutant: the number per peer keeps counting an evicted block. *)
EvictOldestKeepingCount(s) ==
    LET r == Head(s.order)
        bucket == s.by_parent[Parent[r]]
    IN  [s EXCEPT !.order = Tail(@), !.total = @ - 1,
                  !.by_parent[Parent[r]] = RemoveIndex(bucket, Position(bucket, r))]

EvictOldest(s) ==
    LET r == Head(s.order)
        bucket == s.by_parent[Parent[r]]
        pos == Position(bucket, r)
        popped == [s EXCEPT !.order = Tail(@)]
    IN  IF IsIn(bucket, r)
        THEN Released([popped EXCEPT !.by_parent[Parent[r]] = RemoveIndex(bucket, pos)],
                      <<bucket[pos]>>)
        ELSE popped

Added(s, r, peer) ==
    [s EXCEPT !.by_parent[Parent[r]] = Append(@, [root |-> r, peer |-> peer]),
              !.per_peer = [p \in Peers |-> @[p] + IF p = peer THEN 1 ELSE 0],
              !.order = Append(@, r), !.total = @ + 1]

(* insert: a duplicate, or a peer at its limit, leaves the store as it is. *)
Insert(s, r, peer) ==
    LET added == Added(s, r, peer)
    IN  IF \/ IsIn(s.by_parent[Parent[r]], r)
           \/ peer \in Peers /\ s.per_peer[peer] >= MaxPerPeer
        THEN s
        ELSE IF added.total > MaxPending THEN EvictOldest(added) ELSE added

DrainChildren(s, q) ==
    LET bucket == s.by_parent[q]
    IN  Released([s EXCEPT !.by_parent[q] = <<>>,
                           !.order = RetainExcept(@, {e.root : e \in Values(bucket)})],
                 bucket)

Waiting(s) == Values(s.order) \cap Roots

(* The entries of all buckets. *)
Entries(s) == UNION {Values(s.by_parent[q]) : q \in Roots}

PendingType ==
    [by_parent : [Roots -> Seq(Entry)], per_peer : [Peers -> Nat], order : Seq(Roots),
     total : Nat]
=============================================================================
