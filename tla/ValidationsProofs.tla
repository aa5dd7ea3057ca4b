------------------------- MODULE ValidationsProofs -------------------------
(***************************************************************************)
(* Proofs about Validations: the trie counts exactly the last ledgers, and *)
(* a node counts for one ledger per sequence, for every set of nodes,      *)
(* ledgers and claims, every parameter and every number of steps.          *)
(***************************************************************************)
EXTENDS Validations, FiniteSetTheorems, TLAPS

-----------------------------------------------------------------------------
(***************************************************************************)
(* Support                                                                 *)
(***************************************************************************)
SupportRecord ==
    [trie : [Ledger -> Nat],
     last : [NodeID -> Ledger \cup {None}],
     acq  : [Claim -> SUBSET NodeID]]

Counts(s) == \A l \in Ledger : s.trie[l] = Cardinality(Supporters(s.last, NodeID, l))

Consistent(s) == s \in SupportRecord /\ Counts(s)

(***************************************************************************)
(* The number of supporters of l is that of the nodes outside N plus that  *)
(* of the nodes in N (what Drop and Move rely on when they subtract).      *)
(***************************************************************************)
LEMMA SupportersSplit ==
    ASSUME NEW last, NEW N \in SUBSET NodeID, NEW l
    PROVE  /\ IsFiniteSet(Supporters(last, NodeID, l))
           /\ IsFiniteSet(Supporters(last, N, l))
           /\ IsFiniteSet(Supporters(last, NodeID \ N, l))
           /\ Cardinality(Supporters(last, NodeID, l)) \in Nat
           /\ Cardinality(Supporters(last, N, l)) \in Nat
           /\ Cardinality(Supporters(last, NodeID \ N, l)) \in Nat
           /\ Cardinality(Supporters(last, NodeID, l)) =
                Cardinality(Supporters(last, NodeID \ N, l)) + Cardinality(Supporters(last, N, l))
<1> DEFINE A == Supporters(last, NodeID, l)
           B == Supporters(last, N, l)
           C == Supporters(last, NodeID \ N, l)
<1>1. IsFiniteSet(NodeID)
    BY ValidationsAssumption
<1>2. A \in SUBSET NodeID /\ B \in SUBSET NodeID /\ C \in SUBSET NodeID
    BY DEF Supporters
<1>3. IsFiniteSet(A) /\ IsFiniteSet(B) /\ IsFiniteSet(C)
    BY <1>1, <1>2, FS_Subset, Zenon
<1>4. A = C \cup B /\ C \cap B = {}
    BY DEF Supporters
<1>5. Cardinality(A) \in Nat /\ Cardinality(B) \in Nat /\ Cardinality(C) \in Nat
    BY <1>3, FS_CardinalityType, Zenon
<1>6. Cardinality(C \cup B) = Cardinality(C) + Cardinality(B) - Cardinality(C \cap B)
    BY <1>3, FS_Union, Zenon
<1>7. Cardinality(C \cap B) = 0
    BY <1>4, FS_EmptySet, Zenon
<1>8. Cardinality(A) = Cardinality(C) + Cardinality(B)
    BY <1>4, <1>5, <1>6, <1>7
<1> QED
    BY <1>3, <1>5, <1>8

(* Dropping the support of a set of nodes keeps the trie exact. *)
LEMMA DropConsistent ==
    ASSUME NEW s, Consistent(s), NEW N \in SUBSET NodeID
    PROVE  Consistent(Drop(s, N))
<1> DEFINE d == Drop(s, N)
<1>1. d \in SupportRecord
    <2>1. ASSUME NEW l \in Ledger
          PROVE  Minus(s.trie[l], Cardinality(Supporters(s.last, N, l))) \in Nat
        <3>1. Cardinality(Supporters(s.last, N, l)) \in Nat
            BY SupportersSplit
        <3>2. s.trie[l] \in Nat
            BY DEF Consistent, SupportRecord
        <3> QED
            BY <3>1, <3>2 DEF Minus
    <2> QED
        BY <2>1 DEF Consistent, SupportRecord, Drop
<1>2. ASSUME NEW l \in Ledger
      PROVE  d.trie[l] = Cardinality(Supporters(d.last, NodeID, l))
    <2>1. Supporters(d.last, NodeID, l) = Supporters(s.last, NodeID \ N, l)
        BY ValidationsAssumption DEF Consistent, SupportRecord, Drop, Supporters
    <2>2. s.trie[l] = Cardinality(Supporters(s.last, NodeID, l))
        BY DEF Consistent, Counts
    <2>3. d.trie[l] = Minus(s.trie[l], Cardinality(Supporters(s.last, N, l)))
        BY DEF Drop, Consistent, SupportRecord
    <2> QED
        BY <2>1, <2>2, <2>3, SupportersSplit DEF Minus
<1> QED
    BY <1>1, <1>2 DEF Consistent, Counts

(* Moving the support of a set of nodes keeps the trie exact. *)
LEMMA MoveConsistent ==
    ASSUME NEW s, Consistent(s), NEW N \in SUBSET NodeID, NEW pick \in [N -> Ledger]
    PROVE  Consistent(Move(s, N, pick))
<1> DEFINE m == Move(s, N, pick)
<1>0. ASSUME NEW l \in Ledger
      PROVE  /\ Cardinality(Supporters(s.last, N, l)) \in Nat
             /\ Cardinality(Supporters(pick, N, l)) \in Nat
    BY SupportersSplit
<1>1. m \in SupportRecord
    <2>1. ASSUME NEW l \in Ledger
          PROVE  Minus(s.trie[l], Cardinality(Supporters(s.last, N, l)))
                     + Cardinality(Supporters(pick, N, l)) \in Nat
        <3>1. s.trie[l] \in Nat
            BY DEF Consistent, SupportRecord
        <3> QED
            BY <1>0, <3>1 DEF Minus
    <2> QED
        BY <2>1 DEF Consistent, SupportRecord, Move
<1>2. ASSUME NEW l \in Ledger
      PROVE  m.trie[l] = Cardinality(Supporters(m.last, NodeID, l))
    <2>1. /\ Supporters(m.last, NodeID \ N, l) = Supporters(s.last, NodeID \ N, l)
          /\ Supporters(m.last, N, l) = Supporters(pick, N, l)
        BY DEF Consistent, SupportRecord, Move, Supporters
    <2>2. s.trie[l] = Cardinality(Supporters(s.last, NodeID, l))
        BY DEF Consistent, Counts
    <2>3. m.trie[l] = Minus(s.trie[l], Cardinality(Supporters(s.last, N, l)))
                        + Cardinality(Supporters(pick, N, l))
        BY DEF Move, Consistent, SupportRecord
    <2>4. Cardinality(Supporters(m.last, NodeID, l)) =
            Cardinality(Supporters(s.last, NodeID \ N, l)) + Cardinality(Supporters(pick, N, l))
        BY <2>1, SupportersSplit
    <2> QED
        BY <2>2, <2>3, <2>4, SupportersSplit DEF Minus
<1> QED
    BY <1>1, <1>2 DEF Consistent, Counts

(* Erasing acquiring_ entries leaves the trie alone. *)
LEMMA StopAcquiringConsistent ==
    ASSUME NEW s, Consistent(s), NEW N \in SUBSET NodeID, NEW cur
    PROVE  Consistent(StopAcquiring(s, N, cur))
<1>1. StopAcquiring(s, N, cur) \in SupportRecord
    BY DEF Consistent, SupportRecord, StopAcquiring
<1>2. /\ StopAcquiring(s, N, cur).trie = s.trie
      /\ StopAcquiring(s, N, cur).last = s.last
    BY DEF Consistent, SupportRecord, StopAcquiring
<1> QED
    BY <1>1, <1>2 DEF Consistent, Counts

(* removeTrie keeps the trie exact: it removes only support it finds. *)
LEMMA RemoveTrieConsistent ==
    ASSUME NEW s, Consistent(s), NEW N \in SUBSET NodeID, NEW cur
    PROVE  Consistent(removeTrie(s, N, cur))
<1>1. Consistent(StopAcquiring(s, N, cur))
    BY StopAcquiringConsistent
<1>2. {n \in N : s.last[n] = cur[n].id} \in SUBSET NodeID
    OBVIOUS
<1> QED
    BY <1>1, <1>2, DropConsistent DEF removeTrie

(* checkAcquired keeps the trie exact. *)
LEMMA CheckAcquiredConsistent ==
    ASSUME NEW s, Consistent(s), available \in SUBSET Ledger, NEW pick \in Picks(s)
    PROVE  Consistent(checkAcquired(s, pick))
<1> DEFINE t == [s EXCEPT !.acq = [c \in Claim |-> IF c \in Acquired THEN {} ELSE @[c]]]
<1>1. t \in SupportRecord /\ t.trie = s.trie /\ t.last = s.last
    BY DEF Consistent, SupportRecord
<1>2. Consistent(t)
    BY <1>1 DEF Consistent, Counts
<1>3. AcquiredNodes(s) \in SUBSET NodeID
    BY DEF AcquiredNodes, Acquired, Consistent, SupportRecord
<1>4. pick \in [AcquiredNodes(s) -> Ledger]
    BY DEF Picks
<1>5. Consistent(Move(t, AcquiredNodes(s), pick))
    BY <1>2, <1>3, <1>4, MoveConsistent
<1> QED
    BY <1>5 DEF checkAcquired

(* The end of updateTrie keeps the trie exact. *)
LEMMA TrackConsistent ==
    ASSUME NEW s, Consistent(s), available \in SUBSET Ledger, NEW N \in SUBSET NodeID, NEW cur
    PROVE  Consistent(Track(s, N, cur))
<1> DEFINE have == {n \in N : cur[n].id \in available}
           t    == [s EXCEPT !.acq = [c \in Claim |->
                        @[c] \cup {n \in N \ have : ClaimOf(cur[n]) = c}]]
<1>1. t \in SupportRecord /\ t.trie = s.trie /\ t.last = s.last
    BY DEF Consistent, SupportRecord
<1>2. Consistent(t)
    BY <1>1 DEF Consistent, Counts
<1>3. have \in SUBSET NodeID /\ [n \in have |-> cur[n].id] \in [have -> Ledger]
    OBVIOUS
<1>4. Consistent(Move(t, have, [n \in have |-> cur[n].id]))
    BY <1>2, <1>3, MoveConsistent
<1> QED
    BY <1>4 DEF Track

-----------------------------------------------------------------------------
(***************************************************************************)
(* The parts of TypeOK, and the inductive invariant: the type of every     *)
(* variable, with the three support variables typed and counted together.  *)
(***************************************************************************)
SupportOK == Consistent(Support)

RestOK ==
    /\ now \in Nat
    /\ unl \in SUBSET NodeID
    /\ available \in SUBSET Ledger
    /\ current \in [NodeID -> Validation \cup {None}]
    /\ localSeqEnforcer \in Enforcer
    /\ seqEnforcers \in [NodeID -> Enforcer]
    /\ stopped \in BOOLEAN

SetsOK ==
    /\ byLedger \in [Ledger -> [NodeID -> Validation \cup {None}]]
    /\ byLedgerWhen \in [Ledger -> Int]
    /\ bySequence \in [ClaimedSeq -> [NodeID -> Validation \cup {None}]]
    /\ bySequenceWhen \in [ClaimedSeq -> Int]
    /\ toKeep \in [low : Nat, high : Nat] \cup {None}
    /\ refreshTime \in Int

SupportInv == RestOK /\ SetsOK /\ SupportOK

(* The parts of the invariant are the type invariant and the exact count. *)
LEMMA SupportInvParts ==
    SupportInv <=> TypeOK /\ TrieCountsLastLedgers
<1>1. SupportOK <=> /\ trie \in [Ledger -> Nat]
                    /\ lastLedger \in [NodeID -> Ledger \cup {None}]
                    /\ acquiring \in [Claim -> SUBSET NodeID]
                    /\ TrieCountsLastLedgers
    BY DEF SupportOK, Consistent, SupportRecord, Counts, Support, TrieCountsLastLedgers
<1>2. IsFiniteSet(NodeID) /\ Cardinality(NodeID) \in Nat
    BY ValidationsAssumption, FS_CardinalityType
<1>3. ASSUME NEW l \in Ledger
      PROVE  Cardinality(Supporters(lastLedger, NodeID, l)) \in 0 .. Cardinality(NodeID)
    <2>1. Supporters(lastLedger, NodeID, l) \in SUBSET NodeID
        BY DEF Supporters
    <2>2. /\ Cardinality(Supporters(lastLedger, NodeID, l)) <= Cardinality(NodeID)
          /\ IsFiniteSet(Supporters(lastLedger, NodeID, l))
        BY <1>2, <2>1, FS_Subset
    <2>3. Cardinality(Supporters(lastLedger, NodeID, l)) \in Nat
        BY <2>2, FS_CardinalityType
    <2> QED
        BY <1>2, <2>2, <2>3
<1>4. TrieCountsLastLedgers =>
        (trie \in [Ledger -> Nat] <=> trie \in [Ledger -> 0 .. Cardinality(NodeID)])
    BY <1>2, <1>3 DEF TrieCountsLastLedgers
<1> QED
    BY <1>1, <1>4 DEF SupportInv, RestOK, SetsOK, TypeOK

(* What SetSupport establishes, and what leaving the support alone does. *)
LEMMA SupportStep ==
    ASSUME SupportOK, \/ UNCHANGED support
                      \/ \E s : Consistent(s) /\ SetSupport(s)
    PROVE  SupportOK'
<1>1. CASE UNCHANGED support
    BY <1>1 DEF support, SupportOK, Support
<1>2. CASE \E s : Consistent(s) /\ SetSupport(s)
    <2>1. PICK s : Consistent(s) /\ SetSupport(s)
        BY <1>2
    <2>2. Support' = s
        BY <2>1 DEF Support, SetSupport, Consistent, SupportRecord
    <2> QED
        BY <2>1, <2>2 DEF SupportOK, Consistent, SupportRecord, Counts, Supporters
<1> QED
    BY <1>1, <1>2

(* Without validations nothing is supported. *)
LEMMA SupportInit == Init => SupportInv
<1> SUFFICES ASSUME Init PROVE SupportInv
    OBVIOUS
<1>1. RestOK
    <2>1. stopped \in BOOLEAN
        BY Zenon DEF Init
    <2>2. /\ now \in Nat
          /\ current \in [NodeID -> Validation \cup {None}]
          /\ localSeqEnforcer \in Enforcer
          /\ seqEnforcers \in [NodeID -> Enforcer]
        BY DEF Init, Enforcer
    <2> QED
        BY <2>1, <2>2 DEF Init, RestOK
<1>2. SetsOK
    BY DEF Init, SetsOK
<1>3. SupportOK
    <2>1. Support \in SupportRecord
        BY DEF Init, Support, SupportRecord
    <2>2. \A l \in Ledger : Supporters(lastLedger, NodeID, l) = {}
        BY ValidationsAssumption DEF Init, Supporters
    <2>3. \A l \in Ledger : Cardinality(Supporters(lastLedger, NodeID, l)) = 0
        BY <2>2, FS_EmptySet
    <2> QED
        BY <2>1, <2>3 DEF Init, SupportOK, Consistent, Counts, Support
<1> QED
    BY <1>1, <1>2, <1>3 DEF SupportInv

(* Every validation that arrives has the type of one. *)
LEMMA ArrivalsType ==
    ASSUME now \in Nat, NEW c \in Claim, NEW trusted \in BOOLEAN, NEW v \in Arrivals(c, trusted)
    PROVE  /\ v \in Validation
           /\ v.seq \in ClaimedSeq
           /\ v.seen = now
           /\ v.id = c.id /\ v.seq = c.seq
<1>1. c.id \in Ledger /\ c.seq \in Nat \ {0}
    BY ValidationsAssumption
<1>2. PICK d \in SignSkew :
        v = [id |-> c.id, seq |-> c.seq, sign |-> now + d, seen |-> now,
             trusted |-> trusted]
    BY DEF Arrivals
<1>3. now + d \in Int
    BY ValidationsAssumption
<1> QED
    BY <1>1, <1>2, <1>3 DEF Validation, ClaimedSeq

(* The enforcer after a call is an enforcer. *)
LEMMA EnforceType ==
    ASSUME NEW e \in Enforcer, NEW t \in Nat, NEW s \in Nat
    PROVE  Enforce(e, t, s) \in Enforcer
BY DEF Enforce, Enforcer, Unexpired

-----------------------------------------------------------------------------
(***************************************************************************)
(* The operations preserve the invariant                                   *)
(***************************************************************************)
LEMMA AddInv ==
    ASSUME SupportInv, NEW n \in NodeID, NEW c \in Claim, NEW trusted \in BOOLEAN,
           Receive(n, c, trusted)
    PROVE  SupportInv'
<1>1. PICK v \in Arrivals(c, trusted) : add(n, v)
    BY DEF Receive
<1>2. v \in Validation /\ v.seq \in ClaimedSeq /\ v.seq \in Nat /\ v.id \in Ledger
    BY ArrivalsType DEF SupportInv, RestOK, Validation
<1>3. RestOK'
    <2>1. seqEnforcers[n] \in Enforcer /\ now \in Nat
        BY DEF SupportInv, RestOK
    <2>2. Enforce(seqEnforcers[n], now, v.seq) \in Enforcer
        BY <1>2, <2>1, EnforceType
    <2>3. seqEnforcers' \in [NodeID -> Enforcer]
        BY <1>1, <2>2 DEF add, SupportInv, RestOK
    <2>4. current' \in [NodeID -> Validation \cup {None}]
        BY <1>1, <1>2 DEF add, SupportInv, RestOK
    <2>5. UNCHANGED <<now, unl, available, localSeqEnforcer, stopped>>
        BY <1>1, Zenon DEF add
    <2> QED
        BY <2>3, <2>4, <2>5 DEF SupportInv, RestOK
<1>4. SetsOK'
    <2>1. bySequence' \in [ClaimedSeq -> [NodeID -> Validation \cup {None}]]
        <3>1. bySequence[v.seq][n] \in Validation \cup {None}
            BY <1>2 DEF SupportInv, SetsOK
        <3>2. SequenceEntry(bySequence[v.seq][n], v) \in Validation \cup {None}
            BY <1>2, <3>1 DEF SequenceEntry
        <3>3. bySequence' = [bySequence EXCEPT ![v.seq][n] = SequenceEntry(@, v)]
            BY <1>1 DEF add
        <3>4. [bySequence[v.seq] EXCEPT ![n] = SequenceEntry(@, v)]
                \in [NodeID -> Validation \cup {None}]
            BY <1>2, <3>2 DEF SupportInv, SetsOK
        <3> QED
            BY <1>2, <3>3, <3>4 DEF SupportInv, SetsOK
    <2>2. byLedger' \in [Ledger -> [NodeID -> Validation \cup {None}]]
        <3>1. byLedger' = byLedger \/ byLedger' = [byLedger EXCEPT ![v.id][n] = v]
            BY <1>1 DEF add
        <3>2. byLedger[v.id] \in [NodeID -> Validation \cup {None}]
            BY <1>2 DEF SupportInv, SetsOK
        <3>3. [byLedger[v.id] EXCEPT ![n] = v] \in [NodeID -> Validation \cup {None}]
            BY <1>2, <3>2
        <3> QED
            BY <1>2, <3>1, <3>3 DEF SupportInv, SetsOK
    <2>3. byLedgerWhen' \in [Ledger -> Int] /\ bySequenceWhen' \in [ClaimedSeq -> Int]
        BY <1>1, <1>2 DEF add, StoredAt, SupportInv, SetsOK, RestOK
    <2> QED
        BY <1>1, <2>1, <2>2, <2>3 DEF add, keep, SupportInv, SetsOK
<1>5. SupportOK'
    <2> DEFINE cur == [current EXCEPT ![n] = v]
               s0 == IF current[n] = None THEN Support ELSE StopAcquiring(Support, {n}, current)
    <2>1. Consistent(s0)
        BY StopAcquiringConsistent DEF SupportInv, SupportOK
    <2>2. CASE UNCHANGED support
        BY <2>2, SupportStep DEF SupportInv
    <2>3. CASE \E pick \in Picks(s0) : SetSupport(Track(checkAcquired(s0, pick), {n}, cur))
        <3>1. PICK pick \in Picks(s0) : SetSupport(Track(checkAcquired(s0, pick), {n}, cur))
            BY <2>3
        <3>2. available \in SUBSET Ledger
            BY DEF SupportInv, RestOK
        <3>3. Consistent(checkAcquired(s0, pick))
            BY <2>1, <3>2, CheckAcquiredConsistent
        <3>4. {n} \in SUBSET NodeID
            OBVIOUS
        <3>5. Consistent(Track(checkAcquired(s0, pick), {n}, cur))
            BY <3>2, <3>3, <3>4, TrackConsistent
        <3> QED
            BY <3>1, <3>5, SupportStep DEF SupportInv
    <2> QED
        BY <1>1, <2>2, <2>3 DEF add
<1> QED
    BY <1>3, <1>4, <1>5 DEF SupportInv

(* trustChanged moves and drops support, and keeps the count exact. *)
LEMMA TrustInv ==
    ASSUME SupportInv, NEW added \in SUBSET NodeID, NEW removed \in SUBSET NodeID,
           trustChanged(added, removed)
    PROVE  SupportInv'
<1> DEFINE held == {n \in NodeID : current[n] # None}
           gone == removed \cap held
           new  == added \cap held
<1>1. \A n \in NodeID, v \in Validation \cup {None} :
        SetTrust(v, n, added, removed) \in Validation \cup {None}
    BY DEF SetTrust, Validation
<1>2. RestOK'
    <2>1. current' \in [NodeID -> Validation \cup {None}]
        BY <1>1 DEF trustChanged, SupportInv, RestOK
    <2>2. unl' \in SUBSET NodeID
        BY DEF trustChanged, SupportInv, RestOK
    <2>3. UNCHANGED <<now, available, localSeqEnforcer, seqEnforcers, stopped>>
        BY Zenon DEF trustChanged
    <2> QED
        BY <2>1, <2>2, <2>3 DEF SupportInv, RestOK
<1>3. SetsOK'
    <2>1. byLedger' \in [Ledger -> [NodeID -> Validation \cup {None}]]
        BY <1>1 DEF trustChanged, SupportInv, SetsOK
    <2> QED
        BY <2>1 DEF trustChanged, keep, SupportInv, SetsOK
<1>4. SupportOK'
    <2>1. PICK early \in SUBSET gone :
             LET s0 == removeTrie(Support, early, current)
             IN  IF new = {} THEN early = gone /\ SetSupport(s0)
                 ELSE \E pick \in Picks(s0) :
                        SetSupport(removeTrie(Track(checkAcquired(s0, pick), new, current),
                                              gone \ early, current))
        BY DEF trustChanged
    <2> DEFINE s0 == removeTrie(Support, early, current)
    <2>2. available \in SUBSET Ledger
        BY DEF SupportInv, RestOK
    <2>3. Consistent(s0)
        BY RemoveTrieConsistent DEF SupportInv, SupportOK
    <2>4. CASE new = {}
        BY <2>1, <2>3, <2>4, SupportStep DEF SupportInv
    <2>5. CASE new # {}
        <3>1. PICK pick \in Picks(s0) :
                SetSupport(removeTrie(Track(checkAcquired(s0, pick), new, current),
                                      gone \ early, current))
            BY <2>1, <2>5
        <3>2. Consistent(checkAcquired(s0, pick))
            BY <2>2, <2>3, CheckAcquiredConsistent
        <3>3. new \in SUBSET NodeID /\ gone \ early \in SUBSET NodeID
            OBVIOUS
        <3>4. Consistent(Track(checkAcquired(s0, pick), new, current))
            BY <2>2, <3>2, <3>3, TrackConsistent
        <3>5. Consistent(removeTrie(Track(checkAcquired(s0, pick), new, current),
                                    gone \ early, current))
            BY <3>3, <3>4, RemoveTrieConsistent
        <3> QED
            BY <3>1, <3>5, SupportStep DEF SupportInv
    <2> QED
        BY <2>4, <2>5
<1> QED
    BY <1>2, <1>3, <1>4 DEF SupportInv

(* So do the queries, which flush what is stale and move what is acquired. *)
LEMMA QueryInv == SupportInv /\ Query => SupportInv'
<1> SUFFICES ASSUME SupportInv, Query PROVE SupportInv'
    OBVIOUS
<1> DEFINE s == removeTrie(Support, StaleNodes, current)
<1>1. StaleNodes \in SUBSET NodeID /\ available \in SUBSET Ledger
    BY DEF StaleNodes, SupportInv, RestOK
<1>2. Consistent(s)
    BY <1>1, RemoveTrieConsistent DEF SupportInv, SupportOK
<1>3. Flushed \in [NodeID -> Validation \cup {None}]
    BY DEF Flushed, SupportInv, RestOK
<1>4. CASE iterateCurrent
    <2>1. SupportOK'
        BY <1>2, <1>4, SupportStep DEF iterateCurrent, SupportInv
    <2>2. RestOK'
        BY <1>3, <1>4 DEF iterateCurrent, SupportInv, RestOK
    <2>3. SetsOK'
        BY <1>4 DEF iterateCurrent, aged, keep, SupportInv, SetsOK
    <2> QED
        BY <2>1, <2>2, <2>3 DEF SupportInv
<1>5. CASE withTrie
    <2>1. PICK pick \in Picks(s) : SetSupport(checkAcquired(s, pick))
        BY <1>5 DEF withTrie
    <2>2. Consistent(checkAcquired(s, pick))
        BY <1>1, <1>2, CheckAcquiredConsistent
    <2>3. SupportOK'
        BY <2>1, <2>2, SupportStep DEF SupportInv
    <2>4. RestOK'
        BY <1>3, <1>5 DEF withTrie, SupportInv, RestOK
    <2>5. SetsOK'
        BY <1>5 DEF withTrie, aged, keep, SupportInv, SetsOK
    <2> QED
        BY <2>3, <2>4, <2>5 DEF SupportInv
<1>6. ASSUME NEW l \in Ledger, touchLedger(l)
      PROVE  SupportInv'
    <2>1. SupportOK'
        BY <1>6, SupportStep DEF touchLedger, SupportInv
    <2>2. RestOK'
        BY <1>6 DEF touchLedger, SupportInv, RestOK
    <2>3. SetsOK'
        BY <1>6 DEF touchLedger, keep, SupportInv, SetsOK, RestOK
    <2> QED
        BY <2>1, <2>2, <2>3 DEF SupportInv
<1> QED
    BY <1>4, <1>5, <1>6 DEF Query

(* expire and setSeqToKeep touch the sets of validations only. *)
LEMMA SweepInv == SupportInv /\ Sweep => SupportInv'
<1> SUFFICES ASSUME SupportInv, Sweep PROVE SupportInv'
    OBVIOUS
<1>1. ASSUME NEW first \in Firsts, expire(first)
      PROVE  SupportInv'
    <2>1. SupportOK'
        BY <1>1, SupportStep DEF expire, SupportInv
    <2>2. RestOK'
        BY <1>1 DEF expire, SupportInv, RestOK
    <2>3. SetsOK'
        <3>1. now \in Nat /\ validationSetExpires \in Nat /\ validationFRESHNESS \in Nat
            BY ValidationsAssumption DEF SupportInv, RestOK
        <3>2. refreshTime' \in Int
            BY <1>1, <3>1 DEF expire, SupportInv, SetsOK
        <3>3. byLedgerWhen' \in [Ledger -> Int] /\ bySequenceWhen' \in [ClaimedSeq -> Int]
            BY <1>1, <3>1 DEF expire, SupportInv, SetsOK
        <3>4. byLedger' \in [Ledger -> [NodeID -> Validation \cup {None}]]
            BY <1>1 DEF expire, SupportInv, SetsOK
        <3>5. bySequence' \in [ClaimedSeq -> [NodeID -> Validation \cup {None}]]
            BY <1>1 DEF expire, SupportInv, SetsOK
        <3> QED
            BY <1>1, <3>2, <3>3, <3>4, <3>5 DEF expire, SupportInv, SetsOK
    <2> QED
        BY <2>1, <2>2, <2>3 DEF SupportInv
<1>2. ASSUME NEW low \in ClaimedSeq, NEW high \in ClaimedSeq, setSeqToKeep(low, high + 1)
      PROVE  SupportInv'
    <2>1. SupportOK'
        BY <1>2, SupportStep DEF setSeqToKeep, SupportInv
    <2>2. RestOK'
        BY <1>2 DEF setSeqToKeep, SupportInv, RestOK
    <2>3. low \in Nat /\ high + 1 \in Nat
        BY ValidationsAssumption DEF ClaimedSeq
    <2>4. SetsOK'
        BY <1>2, <2>3 DEF setSeqToKeep, aged, SupportInv, SetsOK
    <2> QED
        BY <2>1, <2>2, <2>4 DEF SupportInv
<1> QED
    BY <1>1, <1>2 DEF Sweep

(* canValidateSeq, flush and the environment leave the support alone. *)
LEMMA OtherInv == SupportInv /\ (Local \/ Environment) => SupportInv'
<1> SUFFICES ASSUME SupportInv, Local \/ Environment PROVE SupportInv'
    OBVIOUS
<1>1. UNCHANGED support /\ UNCHANGED <<aged, keep>>
    BY DEF Local, Environment, canValidateSeq, flush, Tick, LedgerArrives, LedgerSwept
<1>2. SupportOK'
    BY <1>1, SupportStep DEF SupportInv
<1>3. SetsOK'
    BY <1>1 DEF aged, keep, SupportInv, SetsOK
<1>4. ASSUME NEW s \in ClaimedSeq, canValidateSeq(s)
      PROVE  RestOK'
    <2>1. s \in Nat
        BY ValidationsAssumption DEF ClaimedSeq
    <2>2. Enforce(localSeqEnforcer, now, s) \in Enforcer
        BY <2>1, EnforceType DEF SupportInv, RestOK
    <2> QED
        BY <1>4, <2>2 DEF canValidateSeq, SupportInv, RestOK
<1>5. CASE flush
    <2>1. stopped' \in BOOLEAN
        BY <1>5, Zenon DEF flush
    <2>2. current' \in [NodeID -> Validation \cup {None}]
        BY <1>5 DEF flush
    <2> QED
        BY <1>2, <1>3, <1>5, <2>1, <2>2 DEF flush, SupportInv, RestOK
<1>6. CASE Environment
    <2>1. now' \in Nat /\ available' \in SUBSET Ledger
        BY <1>6 DEF Environment, Tick, LedgerArrives, LedgerSwept, SupportInv, RestOK
    <2>2. UNCHANGED <<unl, current, localSeqEnforcer, seqEnforcers, stopped>>
        BY <1>6, Zenon DEF Environment, Tick, LedgerArrives, LedgerSwept
    <2> QED
        BY <1>2, <1>3, <2>1, <2>2 DEF SupportInv, RestOK
<1> QED
    BY <1>2, <1>3, <1>4, <1>5, <1>6 DEF Local, SupportInv

(* A stuttering step changes nothing. *)
LEMMA StutterInv == SupportInv /\ UNCHANGED vars => SupportInv'
<1> SUFFICES ASSUME SupportInv, UNCHANGED vars PROVE SupportInv'
    OBVIOUS
<1>1. SupportOK'
    BY SupportStep DEF vars, SupportInv
<1>2. RestOK'
    BY DEF vars, SupportInv, RestOK
<1>3. SetsOK'
    BY DEF vars, aged, keep, SupportInv, SetsOK
<1> QED
    BY <1>1, <1>2, <1>3 DEF SupportInv

(* Every step keeps the invariant. *)
LEMMA NextInv == SupportInv /\ [Next]_vars => SupportInv'
<1>1. SupportInv /\ ChangeTrust => SupportInv'
    BY TrustInv DEF ChangeTrust
<1> QED
    BY <1>1, AddInv, QueryInv, SweepInv, OtherInv, StutterInv DEF Next

(***************************************************************************)
(* Type correctness of Validations, under every interleaving of arrivals,  *)
(* queries, sweeps and trust changes, and any lag of the trust flags.      *)
(***************************************************************************)
THEOREM TypeCorrect == Spec => []TypeOK
<1>1. SupportInv => TypeOK
    BY SupportInvParts
<1> QED
    BY <1>1, SupportInit, NextInv, PTL DEF Spec

(***************************************************************************)
(* lastLedger_ and trie_ never drift apart: updateTrie, removeTrie and     *)
(* checkAcquired keep the trie's tip support equal to the number of nodes  *)
(* whose last ledger it is, for any number of nodes and ledgers.           *)
(***************************************************************************)
THEOREM TrieExact == Spec => []TrieCountsLastLedgers
<1>1. SupportInv => TrieCountsLastLedgers
    BY SupportInvParts
<1> QED
    BY <1>1, SupportInit, NextInv, PTL DEF Spec

-----------------------------------------------------------------------------
(***************************************************************************)
(* One ledger per sequence.  The invariant relates every stored validation *)
(* to the node's enforcer: its sequence is below the enforcer's and it was *)
(* seen before the enforcer's last advance, or that advance came more than *)
(* validationSetExpires after it.                                          *)
(***************************************************************************)
Covered(v, e) ==
    \/ v.seq <= e.seq /\ v.seen <= e.when
    \/ e.when > v.seen + validationSetExpires

SetsCovered ==
    /\ \A n \in NodeID : seqEnforcers[n].when <= now
    /\ \A n \in NodeID, l \in Ledger :
        byLedger[l][n] # None => /\ byLedger[l][n].seen <= now
                                 /\ Covered(byLedger[l][n], seqEnforcers[n])

SequenceInv == SetsCovered /\ OneLedgerPerSequence

(* A step that stores no validation, and at most erases or retrusts some. *)
SameOrErased(new, old) ==
    new # None => old # None /\ new.seq = old.seq /\ new.seen = old.seen

(* Erasing validations, or changing their trust, keeps the invariant. *)
LEMMA ErasingKeepsSequenceInv ==
    ASSUME SupportInv, SupportInv', SequenceInv,
           seqEnforcers' = seqEnforcers, now' \in Nat, now <= now',
           \A n \in NodeID, l \in Ledger : SameOrErased(byLedger'[l][n], byLedger[l][n])
    PROVE  SequenceInv'
<1>1. now \in Nat /\ \A n \in NodeID : seqEnforcers[n].when \in Int
    BY DEF SupportInv, RestOK, Enforcer
<1>2. \A n \in NodeID, l \in Ledger : byLedger[l][n] # None => byLedger[l][n].seen \in Int
    BY DEF SupportInv, SetsOK, Validation
<1>3. SetsCovered'
    BY <1>1, <1>2 DEF SequenceInv, SetsCovered, Covered, SameOrErased
<1>4. OneLedgerPerSequence'
    BY DEF SequenceInv, OneLedgerPerSequence, SameOrErased
<1> QED
    BY <1>3, <1>4 DEF SequenceInv

(* Storing a validation that the enforcer permits keeps the invariant. *)
LEMMA StoringKeepsSequenceInv ==
    ASSUME SupportInv, SequenceInv, NEW n \in NodeID, NEW c \in Claim, NEW trusted \in BOOLEAN,
           Receive(n, c, trusted)
    PROVE  SequenceInv'
<1>1. PICK v \in Arrivals(c, trusted) : add(n, v)
    BY DEF Receive
<1> DEFINE e == seqEnforcers[n]
<1>2. /\ v.seq \in Nat \ {0} /\ v.id \in Ledger /\ v.seen = now /\ now \in Nat
      /\ validationSetExpires \in Nat
    BY ArrivalsType, ValidationsAssumption DEF SupportInv, RestOK, Validation
<1>3. /\ e \in Enforcer /\ e.seq \in Nat /\ e.when \in Int /\ e.when <= now
      /\ now' = now
    BY <1>1 DEF SupportInv, RestOK, Enforcer, SequenceInv, SetsCovered, add
<1>4. ASSUME NEW l \in Ledger, byLedger[l][n] # None
      PROVE  /\ byLedger[l][n].seq \in Nat /\ byLedger[l][n].seen \in Int
             /\ byLedger[l][n].seen <= now
             /\ Covered(byLedger[l][n], e)
    BY <1>4 DEF SupportInv, SetsOK, Validation, SequenceInv, SetsCovered
<1>5. CASE ~Permits(e, now, v.seq)
    <2>1. Enforce(e, now, v.seq) = e
        BY <1>2, <1>3, <1>5 DEF Enforce, Permits, Unexpired, Enforcer
    <2>2. seqEnforcers' = seqEnforcers
        BY <1>1, <2>1 DEF add, SupportInv, RestOK
    <2>3. byLedger' = byLedger
        BY <1>1, <1>5 DEF add
    <2> QED
        BY <1>3, <2>2, <2>3 DEF SequenceInv, SetsCovered, OneLedgerPerSequence
<1>6. CASE Permits(e, now, v.seq)
    <2> DEFINE f == [seq |-> v.seq, when |-> now]
    <2>1. seqEnforcers' = [seqEnforcers EXCEPT ![n] = f]
        BY <1>1, <1>6 DEF add, Enforce
    <2>2. byLedger' = [byLedger EXCEPT ![v.id][n] = v]
        BY <1>1, <1>6 DEF add
    <2>3. /\ seqEnforcers'[n] = f
          /\ \A m \in NodeID \ {n} : seqEnforcers'[m] = seqEnforcers[m]
        BY <2>1 DEF SupportInv, RestOK
    <2>4. /\ byLedger'[v.id][n] = v
          /\ \A l \in Ledger, m \in NodeID :
                l # v.id \/ m # n => byLedger'[l][m] = byLedger[l][m]
        BY <1>2, <2>2 DEF SupportInv, SetsOK
    <2>5. ASSUME NEW l \in Ledger, byLedger[l][n] # None
          PROVE  Covered(byLedger[l][n], f)
        BY <1>2, <1>3, <1>4, <1>6, <2>5 DEF Covered, Permits, Unexpired
    <2>6. ASSUME NEW l \in Ledger, byLedger[l][n] # None, byLedger[l][n].seq = v.seq
          PROVE  now - byLedger[l][n].seen > validationSetExpires
        BY <1>2, <1>3, <1>4, <1>6, <2>6 DEF Covered, Permits, Unexpired
    <2>7. Covered(v, f)
        BY <1>2 DEF Covered
    <2>8. SetsCovered'
        <3>1. ASSUME NEW m \in NodeID
              PROVE  seqEnforcers'[m].when <= now'
            <4>1. CASE m = n
                BY <1>2, <1>3, <2>3, <4>1
            <4>2. CASE m # n
                BY <1>3, <2>3, <4>2 DEF SequenceInv, SetsCovered
            <4> QED
                BY <4>1, <4>2
        <3>2. ASSUME NEW m \in NodeID, NEW l \in Ledger, byLedger'[l][m] # None
              PROVE  byLedger'[l][m].seen <= now /\ Covered(byLedger'[l][m], seqEnforcers'[m])
            <4>1. CASE m = n /\ l = v.id
                BY <1>2, <2>3, <2>4, <2>7, <4>1
            <4>2. CASE m = n /\ l # v.id
                BY <1>4, <2>3, <2>4, <2>5, <3>2, <4>2
            <4>3. CASE m # n
                BY <2>3, <2>4, <3>2, <4>3 DEF SequenceInv, SetsCovered
            <4> QED
                BY <4>1, <4>2, <4>3
        <3> QED
            BY <1>3, <3>1, <3>2 DEF SetsCovered, Covered
    <2>9. OneLedgerPerSequence'
        <3> SUFFICES ASSUME NEW m \in NodeID, NEW k \in Ledger, NEW l \in Ledger,
                            k # l, byLedger'[k][m] # None, byLedger'[l][m] # None,
                            byLedger'[k][m].seq = byLedger'[l][m].seq,
                            byLedger'[k][m].seen <= byLedger'[l][m].seen
                     PROVE  byLedger'[l][m].seen - byLedger'[k][m].seen > validationSetExpires
            BY DEF OneLedgerPerSequence
        <3>1. CASE m = n /\ l = v.id
            BY <1>2, <2>4, <2>6, <3>1
        <3>2. CASE m = n /\ k = v.id
            BY <1>2, <1>4, <2>4, <2>6, <3>2
        <3>3. CASE m # n \/ (k # v.id /\ l # v.id)
            BY <2>4, <3>3 DEF SequenceInv, OneLedgerPerSequence
        <3> QED
            BY <3>1, <3>2, <3>3
    <2> QED
        BY <2>8, <2>9 DEF SequenceInv
<1> QED
    BY <1>5, <1>6

(* Every other step only erases stored validations, or changes their trust. *)
LEMMA OthersErase ==
    ASSUME SupportInv, Query \/ Sweep \/ ChangeTrust \/ Local \/ Environment \/ UNCHANGED vars
    PROVE  /\ seqEnforcers' = seqEnforcers
           /\ now' \in Nat /\ now <= now'
           /\ \A n \in NodeID, l \in Ledger : SameOrErased(byLedger'[l][n], byLedger[l][n])
<1>1. ASSUME byLedger' = byLedger
      PROVE  \A n \in NodeID, l \in Ledger : SameOrErased(byLedger'[l][n], byLedger[l][n])
    BY <1>1 DEF SameOrErased
<1>2. now \in Nat
    BY DEF SupportInv, RestOK
<1>3. CASE Query \/ Local \/ Environment \/ UNCHANGED vars
    <2>1. byLedger' = byLedger
        BY <1>3 DEF Query, iterateCurrent, withTrie, touchLedger, Local, canValidateSeq, flush,
                    Environment, Tick, LedgerArrives, LedgerSwept, vars, aged
    <2>2. seqEnforcers' = seqEnforcers
        BY <1>3 DEF Query, iterateCurrent, withTrie, touchLedger, Local, canValidateSeq, flush,
                    Environment, Tick, LedgerArrives, LedgerSwept, vars
    <2>3. now' = now \/ now' = now + 1
        BY <1>3 DEF Query, iterateCurrent, withTrie, touchLedger, Local, canValidateSeq, flush,
                    Environment, Tick, LedgerArrives, LedgerSwept, vars
    <2> QED
        BY <1>1, <1>2, <2>1, <2>2, <2>3
<1>4. CASE Sweep
    <2>1. ASSUME NEW first \in Firsts, expire(first)
          PROVE  /\ seqEnforcers' = seqEnforcers /\ now' = now
                 /\ \A n \in NodeID, l \in Ledger : SameOrErased(byLedger'[l][n], byLedger[l][n])
        BY <2>1 DEF expire, SameOrErased
    <2>2. ASSUME NEW low, NEW high, setSeqToKeep(low, high)
          PROVE  seqEnforcers' = seqEnforcers /\ now' = now /\ byLedger' = byLedger
        BY <2>2 DEF setSeqToKeep, aged
    <2> QED
        BY <1>1, <1>2, <1>4, <2>1, <2>2 DEF Sweep
<1>5. CASE ChangeTrust
    <2>1. PICK added \in SUBSET NodeID, removed \in SUBSET NodeID : trustChanged(added, removed)
        BY <1>5 DEF ChangeTrust
    <2>2. seqEnforcers' = seqEnforcers /\ now' = now
        BY <2>1 DEF trustChanged
    <2>3. ASSUME NEW n \in NodeID, NEW l \in Ledger
          PROVE  SameOrErased(byLedger'[l][n], byLedger[l][n])
        <3>1. byLedger'[l][n] = SetTrust(byLedger[l][n], n, added, removed)
            BY <2>1 DEF trustChanged
        <3>2. byLedger[l][n] \in Validation \cup {None}
            BY DEF SupportInv, SetsOK
        <3> QED
            BY <3>1, <3>2 DEF SetTrust, SameOrErased, Validation
    <2> QED
        BY <1>2, <2>2, <2>3
<1> QED
    BY <1>3, <1>4, <1>5

(***************************************************************************)
(* A node counts for two ledgers of one sequence only if its validations   *)
(* arrived more than validationSetExpires apart: the SeqEnforcer enforces  *)
(* this although byLedger_ sets are kept alive by touches long after the   *)
(* enforcer has forgotten them.                                            *)
(***************************************************************************)
THEOREM OneLedger == Spec => []OneLedgerPerSequence
<1>1. Init => SequenceInv
    BY DEF Init, SequenceInv, SetsCovered, OneLedgerPerSequence
<1>2. SupportInv /\ SequenceInv /\ [Next]_vars => SequenceInv'
    <2> SUFFICES ASSUME SupportInv, SequenceInv, [Next]_vars PROVE SequenceInv'
        OBVIOUS
    <2>1. SupportInv'
        BY NextInv
    <2>2. CASE Query \/ Sweep \/ ChangeTrust \/ Local \/ Environment \/ UNCHANGED vars
        BY <2>1, <2>2, OthersErase, ErasingKeepsSequenceInv
    <2> QED
        BY <2>2, StoringKeepsSequenceInv DEF Next
<1>3. SequenceInv => OneLedgerPerSequence
    BY DEF SequenceInv
<1> QED
    BY <1>1, <1>2, <1>3, SupportInit, NextInv, PTL DEF Spec

=============================================================================
