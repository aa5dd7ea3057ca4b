----------------------------- MODULE Validations -----------------------------
(***************************************************************************)
(* Validations<Adaptor> (src/xrpld/consensus/Validations.h): the current   *)
(* validation of every node, the sets of validations by ledger and by      *)
(* sequence, the sequence enforcers, and the support the validations of    *)
(* trusted nodes give to ledgers.  Every public method holds mutex_ and is *)
(* one action.  The trie is the bag of ledgers it stores (LedgerTrie.tla   *)
(* has the trie itself).  The environment delivers validations, makes      *)
(* ledgers available and unavailable, and advances the clock.              *)
(***************************************************************************)
EXTENDS LedgerAncestry

CONSTANTS
    NodeID,         \* validators, listed or trusted
    None,           \* no validation, no ledger
    Claim,          \* the [id, seq] pairs a validation may carry
    SignSkew,       \* sign time minus arrival time: integers
    MaxTime,        \* bound on the clock
    validationCurrentWall, validationCurrentLocal, validationCurrentEarly,
    validationSetExpires, validationFRESHNESS

ASSUME ValidationsAssumption ==
    /\ IsFiniteSet(NodeID)
    /\ None \notin Ledger
    /\ Claim \subseteq [id : Ledger, seq : Nat \ {0}]
    /\ SignSkew \subseteq Int
    /\ MaxTime \in Nat
    /\ validationCurrentWall \in Nat /\ validationCurrentLocal \in Nat
    /\ validationCurrentEarly \in Nat /\ validationSetExpires \in Nat
    /\ validationFRESHNESS \in Nat

VARIABLES
    now,            \* the clock
    unl,            \* the nodes the last trustChanged left trusted
    available,      \* ledgers LedgerMaster::getLedgerByHash finds (external)
    current,        \* current_: [NodeID -> Validation or None]
    localSeqEnforcer,   \* [seq, when]
    seqEnforcers,   \* [NodeID -> [seq, when]]
    byLedger,       \* [Ledger -> [NodeID -> Validation or None]]
    byLedgerWhen,   \* when each set of byLedger was created or last touched
    bySequence,     \* the same, by claimed sequence
    bySequenceWhen,
    toKeep,         \* the range [low, high) to keep from expire, or None
    refreshTime,    \* expire's static kRefreshTime
    trie,           \* the bag of ledgers in trie_
    lastLedger,     \* lastLedger_: [NodeID -> Ledger or None]
    acquiring,      \* acquiring_: [Claim -> SUBSET NodeID], {} for no entry
    stopped         \* history: flush() was called, as the server is stopping

support == <<trie, lastLedger, acquiring>>
aged == <<byLedger, byLedgerWhen, bySequence, bySequenceWhen>>
keep == <<toKeep, refreshTime>>
vars == <<now, unl, available, current, localSeqEnforcer, seqEnforcers, aged, keep,
          support, stopped>>

ClaimedSeq == {c.seq : c \in Claim}

Validation == [id : Ledger, seq : Nat \ {0}, sign : Int, seen : Int,
               trusted : BOOLEAN]

Enforcer == [seq : Nat, when : Int]

(* Types.  The trie's counts never exceed the number of nodes: removeTrie and *)
(* updateTrie give no node's support twice.                                    *)
TypeOK ==
    /\ now \in Nat
    /\ unl \subseteq NodeID
    /\ available \subseteq Ledger
    /\ current \in [NodeID -> Validation \cup {None}]
    /\ localSeqEnforcer \in Enforcer
    /\ seqEnforcers \in [NodeID -> Enforcer]
    /\ byLedger \in [Ledger -> [NodeID -> Validation \cup {None}]]
    /\ byLedgerWhen \in [Ledger -> Int]
    /\ bySequence \in [ClaimedSeq -> [NodeID -> Validation \cup {None}]]
    /\ bySequenceWhen \in [ClaimedSeq -> Int]
    /\ toKeep \in [low : Nat, high : Nat] \cup {None}
    /\ refreshTime \in Int
    /\ trie \in [Ledger -> 0 .. Cardinality(NodeID)]
    /\ lastLedger \in [NodeID -> Ledger \cup {None}]
    /\ acquiring \in [Claim -> SUBSET NodeID]
    /\ stopped \in BOOLEAN

-----------------------------------------------------------------------------
(***************************************************************************)
(* Timing.  Here and below, D_Variant is definition D with a plausible     *)
(* mistake: some property must tell the two apart.                         *)
(***************************************************************************)
isCurrent(t, sign, seen) ==
    /\ sign > t - validationCurrentEarly
    /\ sign < t + validationCurrentWall
    /\ seen = 0 \/ seen < t + validationCurrentLocal

Unexpired_EarlyReset(e, t) == IF t >= e.when + validationSetExpires THEN 0 ELSE e.seq

(* SeqEnforcer: the largest sequence that still counts at time t, *)
(* and the enforcer after a call with sequence s.                  *)
Unexpired(e, t) == IF t > e.when + validationSetExpires THEN 0 ELSE e.seq

Permits(e, t, s) == s > Unexpired(e, t)

Enforce(e, t, s) ==
    IF Permits(e, t, s) THEN [seq |-> s, when |-> t]
                        ELSE [e EXCEPT !.seq = Unexpired(e, t)]

-----------------------------------------------------------------------------
(***************************************************************************)
(* Support: operators on a record [trie, last, acq] of the three variables,*)
(* each doing for a set N of nodes what the code does node by node.        *)
(***************************************************************************)
Support == [trie |-> trie, last |-> lastLedger, acq |-> acquiring]

SetSupport(s) == trie' = s.trie /\ lastLedger' = s.last /\ acquiring' = s.acq

Supporters(last, N, l) == {n \in N : last[n] = l}

(* LedgerTrie::remove does nothing for a ledger without tip support. *)
Minus(a, b) == IF a < b THEN 0 ELSE a - b

Drop_KeepsLastLedger(s, N) ==
    [s EXCEPT !.trie = [l \in Ledger |-> Minus(@[l], Cardinality(Supporters(s.last, N, l)))]]

Drop_KeepsTrie(s, N) == [s EXCEPT !.last = [n \in NodeID |-> IF n \in N THEN None ELSE @[n]]]

(* trie_.remove and lastLedger_.erase *)
Drop(s, N) ==
    [s EXCEPT !.trie = [l \in Ledger |-> Minus(@[l], Cardinality(Supporters(s.last, N, l)))],
              !.last = [n \in NodeID |-> IF n \in N THEN None ELSE @[n]]]

(* updateTrie(lock, nodeID, ledger): the support of n moves to pick[n]. *)
Move(s, N, pick) ==
    [s EXCEPT !.trie = [l \in Ledger |->
                 Minus(@[l], Cardinality(Supporters(s.last, N, l)))
                     + Cardinality(Supporters(pick, N, l))],
              !.last = [n \in NodeID |-> IF n \in N THEN pick[n] ELSE @[n]]]

ClaimOf(v) == [id |-> v.id, seq |-> v.seq]

StopAcquiring_Never(s, N, cur) == s

StopAcquiring(s, N, cur) ==
    [s EXCEPT !.acq = [c \in Claim |-> @[c] \ {n \in N : ClaimOf(cur[n]) = c}]]

removeTrie(s, N, cur) ==
    Drop(StopAcquiring(s, N, cur), {n \in N : s.last[n] = cur[n].id})

(***************************************************************************)
(* checkAcquired: every entry whose ledger is available moves its nodes'   *)
(* support and is erased.  The entries are visited in hash order, so a     *)
(* node of several of them ends with any one of their ledgers.             *)
(***************************************************************************)
Acquired == {c \in Claim : c.id \in available}

AcquiredNodes(s) == UNION {s.acq[c] : c \in Acquired}

Picks(s) ==
    {pick \in [AcquiredNodes(s) -> available] :
        \A n \in AcquiredNodes(s) : \E c \in Acquired : n \in s.acq[c] /\ pick[n] = c.id}

checkAcquired(s, pick) ==
    Move([s EXCEPT !.acq = [c \in Claim |-> IF c \in Acquired THEN {} ELSE @[c]]],
         AcquiredNodes(s), pick)

(* The end of updateTrie(lock, nodeID, val, prior), after checkAcquired. *)
Track(s, N, cur) ==
    LET have == {n \in N : cur[n].id \in available}
        t    == [s EXCEPT !.acq = [c \in Claim |->
                     @[c] \cup {n \in N \ have : ClaimOf(cur[n]) = c}]]
    IN  Move(t, have, [n \in have |-> cur[n].id])

-----------------------------------------------------------------------------
(***************************************************************************)
(* The operations                                                          *)
(***************************************************************************)
Init ==
    /\ now = 0
    /\ unl \in SUBSET NodeID
    /\ available \in SUBSET Ledger
    /\ current = [n \in NodeID |-> None]
    /\ localSeqEnforcer = [seq |-> 0, when |-> 0]
    /\ seqEnforcers = [n \in NodeID |-> [seq |-> 0, when |-> 0]]
    /\ byLedger = [l \in Ledger |-> [n \in NodeID |-> None]]
    /\ byLedgerWhen = [l \in Ledger |-> 0]
    /\ bySequence = [s \in ClaimedSeq |-> [n \in NodeID |-> None]]
    /\ bySequenceWhen = [s \in ClaimedSeq |-> 0]
    /\ toKeep = None
    /\ refreshTime = 0
    /\ trie = [l \in Ledger |-> 0]
    /\ lastLedger = [n \in NodeID |-> None]
    /\ acquiring = [c \in Claim |-> {}]
    /\ stopped = FALSE

(* The local node wants to validate a ledger of sequence s. *)
canValidateSeq(s) ==
    /\ localSeqEnforcer' = Enforce(localSeqEnforcer, now, s)
    /\ UNCHANGED <<now, unl, available, current, seqEnforcers, aged, keep, support, stopped>>

(* An aged map's operator[] stamps the entry only when it creates it. *)
StoredAt(map, when, k) ==
    IF \A n \in NodeID : map[k][n] = None THEN [when EXCEPT ![k] = now] ELSE when

(***************************************************************************)
(* bySequence_[seq].emplace: an entry already there is kept, unless it was *)
(* signed long before v.                                                   *)
(***************************************************************************)
SequenceEntry(old, v) ==
    IF old = None THEN v
    ELSE IF v.sign - old.sign > validationCurrentWall THEN v ELSE old

(***************************************************************************)
(* add(nodeID, val).  A validation that is not current changes nothing.    *)
(* One that the enforcer refuses is only recorded by sequence.  One that   *)
(* is not newer than the node's current validation is stored by ledger but *)
(* does not replace it.  Which of these it was, and whether a refused one  *)
(* contradicts the one recorded, add only reports (ValStatus).             *)
(***************************************************************************)
add(n, v) ==
    LET permitted == Permits(seqEnforcers[n], now, v.seq)
        replaces  == permitted /\ (current[n] = None \/ v.sign > current[n].sign)
        cur       == [current EXCEPT ![n] = v]
        s0        == IF current[n] = None THEN Support ELSE StopAcquiring(Support, {n}, current)
    IN  /\ isCurrent(now, v.sign, v.seen)
        /\ bySequence' = [bySequence EXCEPT ![v.seq][n] = SequenceEntry(@, v)]
        /\ bySequenceWhen' = StoredAt(bySequence, bySequenceWhen, v.seq)
        /\ seqEnforcers' = [seqEnforcers EXCEPT ![n] = Enforce(@, now, v.seq)]
        /\ IF permitted
           THEN /\ byLedger' = [byLedger EXCEPT ![v.id][n] = v]
                /\ byLedgerWhen' = StoredAt(byLedger, byLedgerWhen, v.id)
           ELSE UNCHANGED <<byLedger, byLedgerWhen>>
        /\ current' = IF replaces THEN cur ELSE current
        /\ IF replaces /\ v.trusted
           THEN \E pick \in Picks(s0) :
                    SetSupport(Track(checkAcquired(s0, pick), {n}, cur))
           ELSE UNCHANGED support
        /\ UNCHANGED <<now, unl, available, localSeqEnforcer, keep, stopped>>

setSeqToKeep(low, high) ==
    /\ low < high
    /\ toKeep' = [low |-> low, high |-> high]
    /\ UNCHANGED <<now, unl, available, current, localSeqEnforcer, seqEnforcers, aged,
                   refreshTime, support, stopped>>

(***************************************************************************)
(* expire: sets in the keep range are touched, once per refresh period;    *)
(* then every set last touched validationSetExpires ago is erased.         *)
(***************************************************************************)
InKeep(s) == toKeep # None /\ toKeep.low <= s /\ s < toKeep.high

(* A ledger's set is kept by the sequence of the first validation in it. *)
Firsts ==
    {first \in [Ledger -> NodeID] : \A l \in Ledger :
        (\E n \in NodeID : byLedger[l][n] # None) => byLedger[l][first[l]] # None}

KeepLedger(l, first) == byLedger[l][first[l]] # None /\ InKeep(byLedger[l][first[l]].seq)

Expired(when) == when <= now - validationSetExpires

expire(first) ==
    LET refresh == toKeep # None /\ refreshTime <= now
        lw == [l \in Ledger |-> IF refresh /\ KeepLedger(l, first) THEN now ELSE byLedgerWhen[l]]
        sw == [s \in ClaimedSeq |-> IF refresh /\ InKeep(s) THEN now ELSE bySequenceWhen[s]]
        Erase(set, when) == IF Expired(when) THEN [n \in NodeID |-> None] ELSE set
    IN  /\ refreshTime' = IF refresh THEN now + validationSetExpires - validationFRESHNESS
                                     ELSE refreshTime
        /\ byLedger' = [l \in Ledger |-> Erase(byLedger[l], lw[l])]
        /\ bySequence' = [s \in ClaimedSeq |-> Erase(bySequence[s], sw[s])]
        /\ byLedgerWhen' = [l \in Ledger |-> IF Expired(lw[l]) THEN 0 ELSE lw[l]]
        /\ bySequenceWhen' = [s \in ClaimedSeq |-> IF Expired(sw[s]) THEN 0 ELSE sw[s]]
        /\ UNCHANGED <<now, unl, available, current, localSeqEnforcer, seqEnforcers, toKeep,
                       support, stopped>>

(***************************************************************************)
(* trustChanged(added, removed).  current_ is visited in hash order: the   *)
(* removed nodes in "early" come before the first added one, whose         *)
(* updateTrie calls checkAcquired, and the others after it.                *)
(***************************************************************************)
SetTrust(v, n, added, removed) ==
    IF v = None THEN None
    ELSE [v EXCEPT !.trusted = (@ \/ n \in added) /\ n \notin removed]

trustChanged(added, removed) ==
    LET held    == {n \in NodeID : current[n] # None}
        gone    == removed \cap held
        new     == added \cap held
        Retrust(f) == [n \in NodeID |-> SetTrust(f[n], n, added, removed)]
    IN  /\ added \cap removed = {}
        /\ unl' = (unl \cup added) \ removed
        /\ current' = Retrust(current)
        /\ byLedger' = [l \in Ledger |-> Retrust(byLedger[l])]
        /\ \E early \in SUBSET gone :
             LET s0 == removeTrie(Support, early, current)
             IN  IF new = {} THEN early = gone /\ SetSupport(s0)
                 ELSE \E pick \in Picks(s0) :
                        SetSupport(removeTrie(Track(checkAcquired(s0, pick), new, current),
                                              gone \ early, current))
        /\ UNCHANGED <<now, available, localSeqEnforcer, seqEnforcers, byLedgerWhen, bySequence,
                       bySequenceWhen, keep, stopped>>

(* current(): flush the validations that are stale. *)
StaleNodes == {n \in NodeID : current[n] # None /\ ~isCurrent(now, current[n].sign, current[n].seen)}

Flushed == [n \in NodeID |-> IF n \in StaleNodes THEN None ELSE current[n]]

(* currentTrusted, getCurrentNodeIDs, laggards *)
iterateCurrent ==
    /\ current' = Flushed
    /\ SetSupport(removeTrie(Support, StaleNodes, current))
    /\ UNCHANGED <<now, unl, available, localSeqEnforcer, seqEnforcers, aged, keep, stopped>>

withTrie_Unchecked == iterateCurrent

(* getPreferred, getPreferredLCL, and getNodesAfter for the working ledger *)
withTrie ==
    LET s == removeTrie(Support, StaleNodes, current)
    IN  /\ current' = Flushed
        /\ \E pick \in Picks(s) : SetSupport(checkAcquired(s, pick))
        /\ UNCHANGED <<now, unl, available, localSeqEnforcer, seqEnforcers, aged, keep, stopped>>

(***************************************************************************)
(* What getPreferred returns for the working ledger curr, given the trie   *)
(* and acquiring_ as withTrie leaves them: a [seq, id] pair, or None.      *)
(***************************************************************************)
LedgerKey(l) == [id |-> l, seq |-> seq(l)]

(* No acquired ledger: the entry of acquiring_ with the most nodes. *)
MostWanted(acq) ==
    LET wanted == {c \in Claim : acq[c] # {}}
        Below(a, b) == \/ Cardinality(acq[a]) < Cardinality(acq[b])
                       \/ Cardinality(acq[a]) = Cardinality(acq[b]) /\ a.id < b.id
    IN  IF wanted = {} THEN None ELSE CHOOSE c \in wanted : \A d \in wanted : ~Below(c, d)

getPreferred_LeavesParent(bag, acq, curr) ==
    LET p == PreferredOf(bag, localSeqEnforcer.seq)
    IN  IF \A l \in Ledger : bag[l] = 0 THEN MostWanted(acq)
        ELSE IF seq(p) > seq(curr) \/ At(curr, seq(p)) # p THEN LedgerKey(p)
        ELSE LedgerKey(curr)

getPreferred(bag, acq, curr) ==
    LET p == PreferredOf(bag, localSeqEnforcer.seq)
    IN  IF \A l \in Ledger : bag[l] = 0 THEN MostWanted(acq)
        ELSE IF seq(p) = seq(curr) + 1 /\ At(p, seq(curr)) = curr THEN LedgerKey(curr)
        ELSE IF seq(p) > seq(curr) \/ At(curr, seq(p)) # p THEN LedgerKey(p)
        ELSE LedgerKey(curr)

(* getPreferred with a minimum sequence *)
getPreferredFrom(bag, acq, curr, minValidSeq) ==
    LET p == getPreferred(bag, acq, curr)
    IN  IF p # None /\ p.seq >= minValidSeq THEN p.id ELSE curr

(* getPreferredLCL: without trusted validations, the ledger most peers have. *)
getPreferredLCL(bag, acq, lcl, lowest, peerCounts) ==
    LET p == getPreferred(bag, acq, lcl)
        Below(a, b) == \/ peerCounts[a] < peerCounts[b]
                       \/ peerCounts[a] = peerCounts[b] /\ a < b
    IN  IF p # None THEN IF p.seq >= lowest THEN p.id ELSE lcl
        ELSE IF DOMAIN peerCounts = {} THEN lcl
        ELSE CHOOSE l \in DOMAIN peerCounts : \A m \in DOMAIN peerCounts : ~Below(l, m)

getNodesAfter_AtLedger(bag, last, ledger, ledgerID) == bag[ledger]

(* getNodesAfter: the support of proper descendants, or, for another ledger *)
(* than the working one, the number of nodes at an immediate child of it.   *)
getNodesAfter(bag, last, ledger, ledgerID) ==
    IF ledger = ledgerID THEN BranchSupportOf(bag, ledger) - bag[ledger]
    ELSE Cardinality({n \in NodeID : last[n] # None /\ At(last[n], seq(last[n]) - 1) = ledgerID})

(* numTrustedForLedger, getTrustedForLedger, fees *)
touchLedger(l) ==
    /\ \E n \in NodeID : byLedger[l][n] # None
    /\ byLedgerWhen' = [byLedgerWhen EXCEPT ![l] = now]
    /\ UNCHANGED <<now, unl, available, current, localSeqEnforcer, seqEnforcers, byLedger,
                   bySequence, bySequenceWhen, keep, support, stopped>>

(***************************************************************************)
(* flush, as the server begins to stop: current_ is emptied, and what the  *)
(* trie counts and what is being acquired stay as they are.  Jobs that     *)
(* still run, and peers that are still connected, may call anything after  *)
(* it.                                                                     *)
(***************************************************************************)
flush ==
    /\ current' = [n \in NodeID |-> None]
    /\ stopped' = TRUE
    /\ UNCHANGED <<now, unl, available, localSeqEnforcer, seqEnforcers, aged, keep, support>>

-----------------------------------------------------------------------------
(***************************************************************************)
(* The environment                                                         *)
(***************************************************************************)
Tick ==
    /\ now < MaxTime
    /\ now' = now + 1
    /\ UNCHANGED <<unl, available, current, localSeqEnforcer, seqEnforcers, aged, keep, support,
                   stopped>>

(* A ledger arrives from the network, or is swept from the cache. *)
LedgerArrives(l) ==
    /\ available' = available \cup {l}
    /\ UNCHANGED <<now, unl, current, localSeqEnforcer, seqEnforcers, aged, keep, support, stopped>>

LedgerSwept(l) ==
    /\ available' = available \ {l}
    /\ UNCHANGED <<now, unl, current, localSeqEnforcer, seqEnforcers, aged, keep, support, stopped>>

Arrivals(c, trusted) ==
    {[id |-> c.id, seq |-> c.seq, sign |-> now + d, seen |-> now,
      trusted |-> trusted] : d \in SignSkew}

(***************************************************************************)
(* A validation of node n arrives.  handleNewValidation takes its trust    *)
(* from the validator list without the lock of this class, and PeerImp     *)
(* does so even earlier, so the flag may lag behind trustChanged.          *)
(***************************************************************************)
Receive(n, c, trusted) == \E v \in Arrivals(c, trusted) : add(n, v)

Query ==
    \/ iterateCurrent
    \/ withTrie
    \/ \E l \in Ledger : touchLedger(l)

Sweep ==
    \/ \E first \in Firsts : expire(first)
    \/ \E low, high \in ClaimedSeq : setSeqToKeep(low, high + 1)

ChangeTrust ==
    \E added, removed \in SUBSET NodeID :
        /\ added \cap unl = {} /\ removed \subseteq unl
        /\ added \cup removed # {}
        /\ trustChanged(added, removed)

Environment ==
    \/ Tick
    \/ \E l \in Ledger : LedgerArrives(l) \/ LedgerSwept(l)

Local ==
    \/ \E s \in ClaimedSeq : canValidateSeq(s)
    \/ flush

Next ==
    \/ \E n \in NodeID, c \in Claim, trusted \in BOOLEAN : Receive(n, c, trusted)
    \/ Query
    \/ Sweep
    \/ ChangeTrust
    \/ Local
    \/ Environment

Spec == Init /\ [][Next]_vars

(***************************************************************************)
(* The same until the server begins to stop, and while no trust change is  *)
(* in flight: every validation arrives with the trust its node has.  After *)
(* flush the trie no longer follows current_, so what relates the two is   *)
(* stated of these steps only, the last of which may be flush.             *)
(***************************************************************************)
SettledNext ==
    /\ ~stopped
    /\ \/ \E n \in NodeID, c \in Claim : Receive(n, c, n \in unl)
       \/ Query
       \/ Sweep
       \/ ChangeTrust
       \/ Local
       \/ Environment

SettledSpec == Init /\ [][SettledNext]_vars

-----------------------------------------------------------------------------
(***************************************************************************)
(* Properties                                                              *)
(***************************************************************************)

(***************************************************************************)
(* "If in this map, it is accounted for in the trie" (Validations.h,       *)
(* lastLedger_), and nothing else is: whatever removals, moves, flushes    *)
(* and trust changes came before, the trie's tip support of a ledger is    *)
(* the number of nodes whose last ledger it is, so a remove always finds   *)
(* the support it takes away.                                              *)
(***************************************************************************)
TrieCountsLastLedgers ==
    \A l \in Ledger : trie[l] = Cardinality(Supporters(lastLedger, NodeID, l))

(***************************************************************************)
(* The requirement on which quorums rest (SeqEnforcer): a node counts for  *)
(* two different ledgers of one sequence only if its two validations       *)
(* arrived more than validationSetExpires apart, even though a set of      *)
(* validations may outlive the enforcer because queries and the keep range *)
(* touch it.                                                               *)
(***************************************************************************)
OneLedgerPerSequence ==
    \A n \in NodeID : \A k, l \in Ledger :
        LET v == byLedger[k][n]
            w == byLedger[l][n]
        IN  k # l /\ v # None /\ w # None /\ v.seq = w.seq /\ v.seen <= w.seen
                => w.seen - v.seen > validationSetExpires

(***************************************************************************)
(* While trust is settled a node waits for at most one ledger, the one its *)
(* current validation names: updateTrie, removeTrie and the removal of     *)
(* stale validations never leave an old request of the node behind.  flush *)
(* does: it empties current_ and keeps the requests, so this holds until   *)
(* the server begins to stop.                                              *)
(***************************************************************************)
AcquiringIsCurrent ==
    ~stopped => \A c \in Claim : \A n \in acquiring[c] :
        current[n] # None /\ current[n].trusted /\ ClaimOf(current[n]) = c

(***************************************************************************)
(* After withTrie, the calculation it guards sees every trusted node at    *)
(* the ledger of its current validation, as soon as that ledger is         *)
(* available: no acquired ledger is left waiting and no older one is       *)
(* counted in its place.                                                   *)
(***************************************************************************)
TrieIsUpToDate ==
    \A n \in NodeID :
        current'[n] # None /\ current'[n].trusted /\ current'[n].id \in available
            => lastLedger'[n] = current'[n].id

WithTrieSeesCurrent == [][withTrie => TrieIsUpToDate]_vars

VotesOnBranch(curr) ==
    \A l \in Ledger : trie[l] > 0 =>
        \/ IsAncestorOrSelf(l, curr)
        \/ seq(l) = seq(curr) + 1 /\ IsAncestorOrSelf(curr, l)

(* withTrie would find nothing stale to flush and nothing acquired. *)
TrieIsSettled == StaleNodes = {} /\ AcquiredNodes(Support) = {}

(***************************************************************************)
(* Neither a round under way (getPreferred) nor the start of the next one  *)
(* (getPreferredLCL, though the peers report others) makes a node leave    *)
(* its working ledger while every vote it counts is for that ledger, an    *)
(* ancestor of it or an immediate child "we might be about to generate".   *)
(***************************************************************************)
PreferredStays ==
    TrieIsSettled => \A curr \in Ledger :
        (\E l \in Ledger : trie[l] > 0) /\ VotesOnBranch(curr) =>
            \A lowest \in ClaimedSeq :
                /\ getPreferredFrom(trie, acquiring, curr, lowest) = curr
                /\ getPreferredLCL(trie, acquiring, curr, lowest, [l \in Ledger |-> l]) = curr

(***************************************************************************)
(* proposersFinished, by which a round ends as MovedOn, misses nobody:     *)
(* every trusted node whose current validation is for a ledger after curr  *)
(* that we have is counted by getNodesAfter, and by its fallback for       *)
(* another ledger than the working one if curr is the parent.              *)
(***************************************************************************)
FinishedAreCounted ==
    TrieIsSettled => \A curr, working \in Ledger :
        LET after == {n \in NodeID :
                        /\ current[n] # None /\ current[n].trusted
                        /\ current[n].id \in available /\ current[n].id # curr
                        /\ IsAncestorOrSelf(curr, current[n].id)
                        /\ working = curr \/ seq(current[n].id) = seq(curr) + 1}
        IN  Cardinality(after) <= getNodesAfter(trie, lastLedger, working, curr)

(***************************************************************************)
(* trustChanged: "updates the trie to ensure only currently trusted nodes' *)
(* validations are used".                                                  *)
(***************************************************************************)
OnlyTrustedSupport == \A n \in NodeID : lastLedger[n] # None => n \in unl

=============================================================================
