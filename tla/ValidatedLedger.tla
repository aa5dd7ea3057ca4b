-------------------------- MODULE ValidatedLedger --------------------------
(***************************************************************************)
(* What LedgerMaster promises about the last fully validated ledger, and   *)
(* about the last one known to be valid, which it may not have yet: either *)
(* has a quorum of validations when it is chosen, and its sequence only    *)
(* goes up.  How threads, pending sets and locks bring that about is       *)
(* LedgerMaster.tla, which implements this specification.                  *)
(***************************************************************************)
EXTENDS ValidationQuorum

CONSTANTS Trusted, NegativeUNL

VARIABLES vals, validLedger, lastValidLedger

Init ==
    /\ vals = [n \in NodeID |-> {}]
    /\ validLedger = Genesis /\ lastValidLedger = Genesis

Validate(n, l) ==
    /\ MayAdd(vals, n, l)
    /\ vals' = [vals EXCEPT ![n] = @ \cup {l}]
    /\ UNCHANGED <<validLedger, lastValidLedger>>

Note(l) ==
    /\ seq(l) > seq(lastValidLedger)
    /\ HasQuorum(Trusted, NegativeUNL, vals, l)
    /\ lastValidLedger' = l
    /\ UNCHANGED <<vals, validLedger>>

Accept(l) ==
    /\ seq(l) > seq(validLedger)
    /\ HasQuorum(Trusted, NegativeUNL, vals, l)
    /\ validLedger' = l
    /\ UNCHANGED <<vals, lastValidLedger>>

Next ==
    \/ \E n \in NodeID, l \in Ledger : Validate(n, l)
    \/ \E l \in Ledger : Note(l) \/ Accept(l)

Spec == Init /\ [][Next]_<<vals, validLedger, lastValidLedger>>

=============================================================================
