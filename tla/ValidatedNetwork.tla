-------------------------- MODULE ValidatedNetwork --------------------------
(***************************************************************************)
(* Several servers with UNLs of their own, and the validators they listen  *)
(* to.  A validator that works signs sequences in increasing order         *)
(* (canValidateSeq); a faulty one signs anything.  One that was restarted  *)
(* may, since its SeqEnforcer is not persisted, and so may one that signed *)
(* nothing for validationSetExpires, since the enforcer forgets: both      *)
(* count as faulty.  Validations are delayed, reordered, duplicated and    *)
(* lost on their way.  A server is what ValidatedLedger promises.          *)
(***************************************************************************)
EXTENDS ValidationQuorum

CONSTANTS
    Server,
    UNL,            \* UNL[s]: the validators server s trusts
    NegativeUNL,    \* validators on the negative UNL of the ledger
    Faulty

Counted(s) == UNL[s] \ NegativeUNL
quorumOf(s) == quorum(UNL[s], NegativeUNL)

ASSUME NetworkAssumption ==
    /\ UNL \in [Server -> SUBSET NodeID]
    /\ NegativeUNL \subseteq NodeID /\ Faulty \subseteq NodeID

(***************************************************************************)
(* The UNLs overlap enough: two quorums share more validators than can be  *)
(* faulty.                                                                 *)
(***************************************************************************)
ASSUME OverlapAssumption ==
    \A r, s \in Server :
        quorumOf(r) + quorumOf(s)
            > Cardinality(Counted(r) \cup Counted(s)) + Cardinality(Faulty)

VARIABLES
    issued,         \* the ledgers each validator has signed a validation for
    vals,           \* vals[s][n]: those of n's that server s holds
    validLedger,    \* validLedger[s]
    accepted        \* all ledgers that have been validLedger[s]

vars == <<issued, vals, validLedger, accepted>>

Init ==
    /\ issued = [n \in NodeID |-> {}]
    /\ vals = [s \in Server |-> [n \in NodeID |-> {}]]
    /\ validLedger = [s \in Server |-> Genesis]
    /\ accepted = [s \in Server |-> {}]

(***************************************************************************)
(* RCLConsensus: doAccept signs the ledger built if canValidateSeq.  A     *)
(* validator whose enforcer may forget, as one silent for longer than      *)
(* validationSetExpires, is in Faulty.                                     *)
(***************************************************************************)
Issue(n, l) ==
    /\ n \in Faulty \/ MayAdd(issued, n, l)
    /\ issued' = [issued EXCEPT ![n] = @ \cup {l}]
    /\ UNCHANGED <<vals, validLedger, accepted>>

(* A validation reaches a server that trusts its signer. *)
Receive(s, n, l) ==
    /\ n \in UNL[s]
    /\ l \in issued[n]
    /\ MayAdd(vals[s], n, l)
    /\ vals' = [vals EXCEPT ![s][n] = @ \cup {l}]
    /\ UNCHANGED <<issued, validLedger, accepted>>

(* checkAccept. *)
Accept(s, l) ==
    /\ seq(l) > seq(validLedger[s])
    /\ HasQuorum(UNL[s], NegativeUNL, vals[s], l)
    /\ validLedger' = [validLedger EXCEPT ![s] = l]
    /\ accepted' = [accepted EXCEPT ![s] = @ \cup {l}]
    /\ UNCHANGED <<issued, vals>>

Next ==
    \/ \E n \in NodeID, l \in Ledger : Issue(n, l)
    \/ \E s \in Server, n \in NodeID, l \in Ledger : Receive(s, n, l)
    \/ \E s \in Server, l \in Ledger : Accept(s, l)

Spec == Init /\ [][Next]_vars

-----------------------------------------------------------------------------

(* Types: validators sign ledgers, servers hold and accept them. *)
TypeOK ==
    /\ issued \in [NodeID -> SUBSET Ledger]
    /\ vals \in [Server -> [NodeID -> SUBSET Ledger]]
    /\ validLedger \in [Server -> Ledger \cup {Genesis}]
    /\ accepted \in [Server -> SUBSET Ledger]

(***************************************************************************)
(* No two servers, whatever validations reach them and in what order, ever *)
(* fully validate different ledgers of the same sequence: the agreement    *)
(* that the 80% quorum of calculateQuorum and canValidateSeq are for.      *)
(***************************************************************************)
AgreeAtSequence ==
    \A r, s \in Server : \A a \in accepted[r], b \in accepted[s] :
        seq(a) = seq(b) => a = b

(* What keeps it: working validators sign one ledger per sequence, servers *)
(* hold what was signed, and what they accepted still has its quorum.      *)
SignedOnce ==
    \A n \in NodeID \ Faulty : \A a, b \in issued[n] : seq(a) = seq(b) => a = b

HeldWasSigned == \A s \in Server, n \in NodeID : vals[s][n] \subseteq issued[n]

AcceptedHasQuorum ==
    \A s \in Server : \A l \in accepted[s] : HasQuorum(UNL[s], NegativeUNL, vals[s], l)

=============================================================================
