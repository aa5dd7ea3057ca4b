----------------------------- MODULE MCConsensus -----------------------------
(* Small instances of Consensus.  Peers are interchangeable. *)
EXTENDS Consensus, TLC

PeerSymmetry == Permutations(NodeID)

Prop(l, s, set, t) == [prev |-> l, seq |-> s, set |-> set, closeTime |-> t]

(* One ledger: peers propose any set, once or twice, or bow out. *)
VotesProposals ==
    [prev : LedgerID, seq : 0 .. MaxSeq, set : SUBSET Tx, closeTime : CloseTime]
        \cup [prev : LedgerID, seq : {MaxSeq + 1}, set : {{}}, closeTime : CloseTime]

(* Two ledgers: a peer proposes on the first one and bows out of it, and   *)
(* it is also heard of on the other ledger.                                *)
A == CHOOSE l \in LedgerID : TRUE
LedgersProposals ==
    {Prop(A, 0, {}, t) : t \in CloseTime}
        \cup {Prop(A, MaxSeq + 1, {}, t) : t \in CloseTime}
        \cup {Prop(l, 0, Tx, t) : l \in LedgerID \ {A}, t \in CloseTime}

==============================================================================
