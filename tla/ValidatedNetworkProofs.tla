----------------------- MODULE ValidatedNetworkProofs -----------------------
(***************************************************************************)
(* Servers whose UNLs overlap enough agree on the ledger of every sequence *)
(* they fully validate, for any number of servers, validators and ledgers. *)
(***************************************************************************)
EXTENDS ValidatedNetwork, FiniteSetTheorems, TLAPS

Supporters(s, l) == negativeUNLFilter(UNL[s], NegativeUNL, vals[s], l)

(* The inductive invariant. *)
Inv == TypeOK /\ SignedOnce /\ HeldWasSigned /\ AcceptedHasQuorum

(* A quorum is a natural number, whatever the sizes it is computed from. *)
LEMMA QuorumType == \A s \in Server : quorumOf(s) \in Nat
<1> SUFFICES ASSUME NEW s \in Server PROVE quorumOf(s) \in Nat
    OBVIOUS
<1>1. IsFiniteSet(UNL[s]) /\ IsFiniteSet(UNL[s] \ NegativeUNL)
    BY FS_Subset, QuorumAssumption, NetworkAssumption
<1>2. Cardinality(UNL[s]) \in Nat /\ Cardinality(UNL[s] \ NegativeUNL) \in Nat
    BY <1>1, FS_CardinalityType
<1>3. \A u, e \in Nat : calculateQuorum(u, e) \in Nat
    BY QuorumAssumption DEF calculateQuorum, MaxOf
<1> QED  BY <1>2, <1>3 DEF quorumOf, quorum

(* The counting argument: two quorums have a working validator in common. *)
LEMMA QuorumsMeet ==
    ASSUME NEW r \in Server, NEW s \in Server,
           NEW A, NEW B, A \subseteq Counted(r), B \subseteq Counted(s),
           Cardinality(A) >= quorumOf(r), Cardinality(B) >= quorumOf(s)
    PROVE  \E n \in A \cap B : n \in NodeID \ Faulty
<1> DEFINE U == Counted(r) \cup Counted(s)
<1>1. IsFiniteSet(U) /\ U \subseteq NodeID
    BY FS_Subset, QuorumAssumption, NetworkAssumption DEF Counted
<1>2. IsFiniteSet(A) /\ IsFiniteSet(B) /\ IsFiniteSet(A \cup B) /\ IsFiniteSet(A \cap B)
    <2>1. A \subseteq U /\ B \subseteq U /\ A \cup B \subseteq U /\ A \cap B \subseteq U
        OBVIOUS
    <2> QED  BY <2>1, <1>1, FS_Subset
<1>3. Cardinality(A \cup B) = Cardinality(A) + Cardinality(B) - Cardinality(A \cap B)
    BY <1>2, FS_Union
<1>4. Cardinality(A \cup B) <= Cardinality(U)
    <2>1. A \cup B \subseteq U
        OBVIOUS
    <2> QED  BY <2>1, <1>1, FS_Subset
<1>5. /\ Cardinality(A) \in Nat /\ Cardinality(B) \in Nat /\ Cardinality(A \cap B) \in Nat
      /\ Cardinality(A \cup B) \in Nat /\ Cardinality(U) \in Nat
    BY <1>1, <1>2, FS_CardinalityType
<1>6. IsFiniteSet(Faulty) /\ Cardinality(Faulty) \in Nat
    BY FS_Subset, FS_CardinalityType, QuorumAssumption, NetworkAssumption
<1>7. quorumOf(r) + quorumOf(s) > Cardinality(U) + Cardinality(Faulty)
    BY OverlapAssumption
<1>8. Cardinality(A \cap B) > Cardinality(Faulty)
    <2> HIDE DEF U
    <2> QED  BY <1>3, <1>4, <1>5, <1>6, <1>7, QuorumType
<1>9. ~(A \cap B \subseteq Faulty)
    BY <1>8, <1>5, <1>6, FS_Subset
<1> QED  BY <1>9, <1>1

(* The invariant makes servers agree: the quorums of two ledgers of one    *)
(* sequence meet in a validator that signed both.                          *)
LEMMA InvAgrees == Inv => AgreeAtSequence
<1> SUFFICES ASSUME Inv, NEW r \in Server, NEW s \in Server,
                    NEW a \in accepted[r], NEW b \in accepted[s], seq(a) = seq(b)
             PROVE  a = b
    BY DEF AgreeAtSequence
<1>1. /\ Supporters(r, a) \subseteq Counted(r) /\ Cardinality(Supporters(r, a)) >= quorumOf(r)
      /\ Supporters(s, b) \subseteq Counted(s) /\ Cardinality(Supporters(s, b)) >= quorumOf(s)
    BY DEF Inv, AcceptedHasQuorum, HasQuorum, Supporters, negativeUNLFilter, Counted, quorumOf
<1>2. PICK n \in Supporters(r, a) \cap Supporters(s, b) : n \in NodeID \ Faulty
    BY <1>1, QuorumsMeet
<1>3. a \in issued[n] /\ b \in issued[n]
    BY <1>2 DEF Inv, HeldWasSigned, Supporters, negativeUNLFilter
<1> QED  BY <1>2, <1>3 DEF Inv, SignedOnce

(* At the start nothing is signed, held or accepted. *)
LEMMA InitInv == Init => Inv
BY DEF Init, Inv, TypeOK, SignedOnce, HeldWasSigned, AcceptedHasQuorum

(* Validations that are held are never dropped here, so a quorum stays one. *)
LEMMA QuorumStays ==
    ASSUME TypeOK, NEW s \in Server, NEW l \in Ledger, NEW v,
           \A n \in NodeID : vals[s][n] \subseteq v[n],
           HasQuorum(UNL[s], NegativeUNL, vals[s], l)
    PROVE  HasQuorum(UNL[s], NegativeUNL, v, l)
<1> DEFINE A == negativeUNLFilter(UNL[s], NegativeUNL, vals[s], l)
           B == negativeUNLFilter(UNL[s], NegativeUNL, v, l)
<1>1. B \subseteq NodeID /\ A \subseteq B
    BY NetworkAssumption DEF negativeUNLFilter
<1>2. IsFiniteSet(B)
    BY <1>1, FS_Subset, QuorumAssumption
<1>3. /\ IsFiniteSet(A) /\ Cardinality(A) <= Cardinality(B)
      /\ Cardinality(A) \in Nat /\ Cardinality(B) \in Nat
    BY <1>1, <1>2, FS_Subset, FS_CardinalityType
<1>4. Cardinality(A) >= quorumOf(s)
    BY DEF HasQuorum, quorumOf
<1>5. Cardinality(B) >= quorumOf(s)
    <2> HIDE DEF A, B
    <2> QED  BY <1>3, <1>4, QuorumType
<1> QED  BY <1>5 DEF HasQuorum, quorumOf

(* A validator that works only signs above what it has signed. *)
LEMMA IssueInv ==
    ASSUME Inv, NEW n \in NodeID, NEW l \in Ledger, Issue(n, l)
    PROVE  Inv'
<1>1. TypeOK'
    BY DEF Inv, TypeOK, Issue
<1>2. SignedOnce'
    <2> SUFFICES ASSUME NEW m \in NodeID \ Faulty, NEW a \in issued'[m], NEW b \in issued'[m],
                        seq(a) = seq(b)
                 PROVE  a = b
        BY DEF SignedOnce
    <2>1. CASE m # n
        BY <2>1 DEF Inv, TypeOK, SignedOnce, Issue
    <2>2. CASE m = n
        <3>1. /\ issued'[n] = issued[n] \cup {l}
              /\ \A x \in issued[n] : seq(l) > seq(x)
            BY <2>2 DEF Inv, TypeOK, Issue, MayAdd
        <3>2. \A x \in Ledger : seq(x) \in Nat
            BY AncestryAssumption DEF seq, Genesis
        <3>3. issued[n] \subseteq Ledger
            BY DEF Inv, TypeOK
        <3> QED  BY <2>2, <3>1, <3>2, <3>3 DEF Inv, SignedOnce
    <2> QED  BY <2>1, <2>2
<1>3. HeldWasSigned'
    BY DEF Inv, TypeOK, HeldWasSigned, Issue
<1>4. AcceptedHasQuorum'
    BY DEF Inv, AcceptedHasQuorum, Issue, HasQuorum, negativeUNLFilter
<1> QED  BY <1>1, <1>2, <1>3, <1>4 DEF Inv

(* A server that receives a validation keeps the ones it holds. *)
LEMMA ReceiveInv ==
    ASSUME Inv, NEW s \in Server, NEW n \in NodeID, NEW l \in Ledger, Receive(s, n, l)
    PROVE  Inv'
<1>1. TypeOK'
    BY DEF Inv, TypeOK, Receive
<1>2. SignedOnce'
    BY DEF Inv, SignedOnce, Receive
<1>3. \A r \in Server, m \in NodeID :
          /\ vals[r][m] \subseteq vals'[r][m]
          /\ vals'[r][m] \subseteq vals[r][m] \cup {l}
          /\ r # s \/ m # n => vals'[r][m] = vals[r][m]
    BY DEF Inv, TypeOK, Receive
<1>4. HeldWasSigned'
    <2> SUFFICES ASSUME NEW r \in Server, NEW m \in NodeID
                 PROVE  vals'[r][m] \subseteq issued'[m]
        BY DEF HeldWasSigned
    <2> QED  BY <1>3 DEF Inv, HeldWasSigned, Receive
<1>5. AcceptedHasQuorum'
    <2> SUFFICES ASSUME NEW r \in Server, NEW a \in accepted'[r]
                 PROVE  HasQuorum(UNL[r], NegativeUNL, vals'[r], a)
        BY DEF AcceptedHasQuorum, HasQuorum, negativeUNLFilter
    <2>1. a \in Ledger /\ HasQuorum(UNL[r], NegativeUNL, vals[r], a)
        BY DEF Inv, TypeOK, AcceptedHasQuorum, Receive
    <2>2. \A m \in NodeID : vals[r][m] \subseteq vals'[r][m]
        BY <1>3
    <2> QED  BY <2>1, <2>2, QuorumStays DEF Inv
<1> QED  BY <1>1, <1>2, <1>4, <1>5 DEF Inv

(* A ledger is accepted with its quorum. *)
LEMMA AcceptInv ==
    ASSUME Inv, NEW s \in Server, NEW l \in Ledger, Accept(s, l)
    PROVE  Inv'
<1>1. TypeOK'
    BY DEF Inv, TypeOK, Accept
<1>2. SignedOnce' /\ HeldWasSigned'
    BY DEF Inv, SignedOnce, HeldWasSigned, Accept
<1>3. AcceptedHasQuorum'
    <2> SUFFICES ASSUME NEW r \in Server, NEW a \in accepted'[r]
                 PROVE  HasQuorum(UNL[r], NegativeUNL, vals[r], a)
        BY DEF AcceptedHasQuorum, HasQuorum, negativeUNLFilter, Accept
    <2>1. CASE a \in accepted[r]
        BY <2>1 DEF Inv, AcceptedHasQuorum
    <2>2. CASE a \notin accepted[r]
        BY <2>2 DEF Inv, TypeOK, Accept
    <2> QED  BY <2>1, <2>2
<1> QED  BY <1>1, <1>2, <1>3 DEF Inv

(* The invariant holds in every state of every behaviour. *)
LEMMA InvAlways == Spec => []Inv
<1>1. Inv /\ [Next]_vars => Inv'
    <2> SUFFICES ASSUME Inv, [Next]_vars PROVE Inv'
        OBVIOUS
    <2>1. CASE UNCHANGED vars
        BY <2>1 DEF Inv, TypeOK, SignedOnce, HeldWasSigned, AcceptedHasQuorum, vars, HasQuorum,
                    negativeUNLFilter
    <2>2. CASE Next
        BY <2>2, IssueInv, ReceiveInv, AcceptInv DEF Next
    <2> QED  BY <2>1, <2>2
<1> QED  BY <1>1, InitInv, PTL DEF Spec

(***************************************************************************)
(* Agreement: with UNLs that overlap enough, no two servers ever fully     *)
(* validate different ledgers of the same sequence (checkAccept with the   *)
(* quorum of calculateQuorum, canValidateSeq).                             *)
(***************************************************************************)
THEOREM Agreement == Spec => []AgreeAtSequence
BY InvAlways, InvAgrees, PTL

=============================================================================
