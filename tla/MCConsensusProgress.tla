------------------------- MODULE MCConsensusProgress -------------------------
(* A small instance of ConsensusProgress: one ledger, and peers that propose *)
(* any set and close time, once.                                            *)
EXTENDS ConsensusProgress

FirstProposals ==
    [prev : LedgerID, seq : {kSeqJoin}, set : SUBSET Tx, closeTime : CloseTime]

==============================================================================
