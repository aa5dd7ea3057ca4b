-------------------------- MODULE ValidationQuorum --------------------------
(***************************************************************************)
(* When trusted validations make a ledger fully validated: the quorum of   *)
(* ValidatorList and the count of LedgerMaster::checkAccept.  A server     *)
(* trusts the validators unl, and does not count those on the negative     *)
(* UNL.                                                                    *)
(***************************************************************************)
EXTENDS LedgerAncestry

CONSTANTS
    NodeID,             \* the validators heard of
    minimumQuorum       \* the quorum of the command line, 0 if there is none

ASSUME QuorumAssumption == IsFiniteSet(NodeID) /\ minimumQuorum \in Nat

(***************************************************************************)
(* 80% of the validators that count, at least 60% of all that are trusted, *)
(* both rounded up.  The lists of enough publishers are available: without *)
(* them the quorum is out of reach and no ledger becomes fully validated.  *)
(***************************************************************************)
calculateQuorum(unlSize, effectiveUnlSize) ==
    IF minimumQuorum > 0 THEN minimumQuorum
    ELSE MaxOf((8 * effectiveUnlSize + 9) \div 10, (6 * unlSize + 9) \div 10)

quorum(unl, negativeUNL) ==
    calculateQuorum(Cardinality(unl), Cardinality(unl \ negativeUNL))

(* The validators whose validation of l counts: vals[n] is the set of the  *)
(* ledgers that a validation of n is held for.                             *)
negativeUNLFilter(unl, negativeUNL, vals, l) ==
    {n \in unl \ negativeUNL : l \in vals[n]}

HasQuorum(unl, negativeUNL, vals, l) ==
    Cardinality(negativeUNLFilter(unl, negativeUNL, vals, l)) >= quorum(unl, negativeUNL)

(***************************************************************************)
(* The SeqEnforcer of Validations::add and canValidateSeq: a validator     *)
(* must go up in sequence.  The code forgets the largest sequence when     *)
(* none was accepted for validationSetExpires (ten minutes); here it is    *)
(* never forgotten, so a validator that was silent for that long and then  *)
(* goes back must be taken for a faulty one.                               *)
(***************************************************************************)
MayAdd_SameSequence(vals, n, l) == \A m \in vals[n] : seq(l) >= seq(m)

MayAdd(vals, n, l) == \A m \in vals[n] : seq(l) > seq(m)

=============================================================================
