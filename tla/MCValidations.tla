--------------------------- MODULE MCValidations ---------------------------
(***************************************************************************)
(* Small instances of Validations: a root ledger 1 and two conflicting     *)
(* children 2 and 3.  Nodes are interchangeable.                           *)
(***************************************************************************)
EXTENDS Validations, TLC

MCChain ==
    (1 :> <<1>>) @@ (2 :> <<1, 2>>) @@ (3 :> <<1, 3>>)

MCClaim == {[id |-> l, seq |-> seq(l)] : l \in Ledger}

(***************************************************************************)
(* The support of ledgers does not depend on the sets by ledger and by     *)
(* sequence or on the keep range, and the sets by ledger do not depend on  *)
(* the support: each run identifies states that differ only in the part    *)
(* its properties do not look at.                                          *)
(***************************************************************************)
SupportView ==
    <<now, unl, available, current, seqEnforcers, localSeqEnforcer.seq, support, stopped>>

SetsView == <<now, seqEnforcers, byLedger, byLedgerWhen, toKeep, refreshTime, stopped>>

Nodes == Permutations(NodeID)

=============================================================================
