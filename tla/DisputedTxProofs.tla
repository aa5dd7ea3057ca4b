-------------------------- MODULE DisputedTxProofs --------------------------
(***************************************************************************)
(* Theorems about DisputedTx, for any set of peers and any parameters: its *)
(* types, and that the tallies are those of the recorded votes.            *)
(***************************************************************************)
EXTENDS DisputedTx, FiniteSetTheorems, TLAPS

Vote == BOOLEAN \cup {None}

(* How many votes are v. *)
Voters(votes, v) == {n \in NodeID : votes[n] = v}
CountOf(votes, v) == Cardinality(Voters(votes, v))

(* The voters are finitely many. *)
LEMMA CountType ==
    ASSUME NEW votes, NEW v
    PROVE  IsFiniteSet(Voters(votes, v)) /\ CountOf(votes, v) \in Nat
<1>1. IsFiniteSet(Voters(votes, v))
  BY FS_Subset, RulesAssumption, Voters(votes, v) \subseteq NodeID DEF Voters
<1> QED
  BY <1>1, FS_CardinalityType DEF CountOf

(* One vote that changes from old to new moves the count of v by as much as *)
(* setVote and unVote add and subtract.                                    *)
LEMMA CountStep ==
    ASSUME NEW votes \in [NodeID -> Vote], NEW n \in NodeID, NEW new \in Vote, NEW v \in BOOLEAN
    PROVE  CountOf([votes EXCEPT ![n] = new], v)
               = CountOf(votes, v) + One(new = v) - One(votes[n] = v)
<1> DEFINE after == [votes EXCEPT ![n] = new]
           S == Voters(votes, v)
           T == Voters(after, v)
<1>0. IsFiniteSet(S) /\ IsFiniteSet(T) /\ Cardinality(S) \in Nat /\ Cardinality(T) \in Nat
  BY CountType DEF CountOf
<1>1. \A m \in NodeID : after[m] = IF m = n THEN new ELSE votes[m]
  OBVIOUS
<1>2. S \ {n} = T \ {n}
  BY <1>1 DEF Voters
<1>3. (n \in S <=> votes[n] = v) /\ (n \in T <=> new = v)
  BY <1>1 DEF Voters
<1>4. \A U : IsFiniteSet(U) => Cardinality(U) = Cardinality(U \ {n}) + (IF n \in U THEN 1 ELSE 0)
  <2> TAKE U
  <2> HAVE IsFiniteSet(U)
  <2>1. CASE n \in U
    <3>1. Cardinality(U \ {n}) = Cardinality(U) - 1
      BY <2>1, FS_RemoveElement
    <3> QED BY <2>1, <3>1, FS_CardinalityType
  <2>2. CASE n \notin U
    <3>1. U \ {n} = U
      BY <2>2
    <3>2. Cardinality(U \ {n}) = Cardinality(U) /\ Cardinality(U) \in Nat
      BY <3>1, FS_CardinalityType
    <3> QED BY <2>2, <3>2
  <2> QED BY <2>1, <2>2
<1>5. Cardinality(S) - (IF n \in S THEN 1 ELSE 0) = Cardinality(T) - (IF n \in T THEN 1 ELSE 0)
  <2>1. Cardinality(S) = Cardinality(S \ {n}) + (IF n \in S THEN 1 ELSE 0)
    BY <1>0, <1>4
  <2>2. Cardinality(T) = Cardinality(T \ {n}) + (IF n \in T THEN 1 ELSE 0)
    BY <1>0, <1>4
  <2>3. Cardinality(S \ {n}) \in Nat
    BY <1>0, FS_RemoveElement, FS_Subset, FS_CardinalityType, S \ {n} \subseteq S
  <2>4. Cardinality(S \ {n}) = Cardinality(T \ {n})
    BY <1>2
  <2> HIDE DEF S, T
  <2> QED
    BY <2>1, <2>2, <2>3, <2>4, <1>0
<1>6. One(votes[n] = v) = (IF n \in S THEN 1 ELSE 0) /\ One(new = v) = (IF n \in T THEN 1 ELSE 0)
  BY <1>3 DEF One
<1> QED
  BY <1>0, <1>5, <1>6 DEF CountOf

-----------------------------------------------------------------------------
(***************************************************************************)
(* What the operations do to a dispute whose tallies are right.            *)
(***************************************************************************)
Counted(d) == d.yays = CountOf(d.votes, TRUE) /\ d.nays = CountOf(d.votes, FALSE)

(* A dispute is a record of these fields. *)
LEMMA DisputeFields ==
    ASSUME NEW d \in Dispute
    PROVE  /\ d.ourVote \in BOOLEAN
           /\ d.votes \in [NodeID -> Vote]
           /\ d.yays \in Nat /\ d.nays \in Nat
           /\ d.currentVoteCounter \in 0 .. avStalledRounds
           /\ d.avalancheState \in AvalancheState
           /\ d.avalancheCounter \in 0 .. avMinRounds
  BY DEF Dispute, Vote

(* Votes and tallies are replaced together. *)
LEMMA WithCounts ==
    ASSUME NEW d \in Dispute, NEW votes \in [NodeID -> Vote], NEW e,
           e = [d EXCEPT !.votes = votes, !.yays = CountOf(votes, TRUE),
                         !.nays = CountOf(votes, FALSE)]
    PROVE  e \in Dispute /\ Counted(e)
<1>1. CountOf(votes, TRUE) \in Nat /\ CountOf(votes, FALSE) \in Nat
  BY CountType
<1> HIDE DEF CountOf
<1>2. e \in Dispute
  BY <1>1 DEF Dispute, Vote
<1>3. e.votes = votes /\ e.yays = CountOf(votes, TRUE) /\ e.nays = CountOf(votes, FALSE)
  BY DEF Dispute
<1> QED
  BY <1>2, <1>3 DEF Counted

(* setVote keeps the tallies right, for a new, a changed and a repeated vote. *)
LEMMA SetVoteCounts ==
    ASSUME NEW d \in Dispute, Counted(d), NEW n \in NodeID, NEW v \in BOOLEAN
    PROVE  setVote(d, n, v) \in Dispute /\ Counted(setVote(d, n, v))
<1> DEFINE votes == [d.votes EXCEPT ![n] = v]
<1>0. d.votes \in [NodeID -> Vote] /\ votes \in [NodeID -> Vote] /\ v \in Vote
  BY DisputeFields DEF Vote
<1>9. \A w \in BOOLEAN : CountOf(votes, w) = CountOf(d.votes, w) + One(v = w)
                                                 - One(d.votes[n] = w)
  BY <1>0, CountStep
<1>1. CountOf(votes, TRUE) = d.yays + One(v = TRUE) - One(d.votes[n] = TRUE)
  BY <1>9, Zenon DEF Counted
<1>2. CountOf(votes, FALSE) = d.nays + One(v = FALSE) - One(d.votes[n] = FALSE)
  BY <1>9, Zenon DEF Counted
<1>3. One(v = TRUE) = One(v) /\ One(v = FALSE) = One(~v)
  BY Zenon DEF One
<1>4. setVote(d, n, v) = [d EXCEPT !.votes = votes, !.yays = CountOf(votes, TRUE),
                                   !.nays = CountOf(votes, FALSE)]
  BY <1>1, <1>2, <1>3 DEF setVote, Dispute
<1> QED
  BY <1>0, <1>4, WithCounts

(* unVote keeps the tallies right, also for a peer without a vote. *)
LEMMA UnVoteCounts ==
    ASSUME NEW d \in Dispute, Counted(d), NEW n \in NodeID
    PROVE  unVote(d, n) \in Dispute /\ Counted(unVote(d, n))
<1> DEFINE votes == [d.votes EXCEPT ![n] = None]
<1>0. d.votes \in [NodeID -> Vote] /\ votes \in [NodeID -> Vote] /\ None \in Vote
  BY DisputeFields DEF Vote
<1>9. \A w \in BOOLEAN : CountOf(votes, w) = CountOf(d.votes, w) + One(None = w)
                                                 - One(d.votes[n] = w)
  BY <1>0, CountStep
<1>1. CountOf(votes, TRUE) = d.yays + One(None = TRUE) - One(d.votes[n] = TRUE)
  BY <1>9, Zenon DEF Counted
<1>2. CountOf(votes, FALSE) = d.nays + One(None = FALSE) - One(d.votes[n] = FALSE)
  BY <1>9, Zenon DEF Counted
<1>3. One(None = TRUE) = 0 /\ One(None = FALSE) = 0
  BY RulesAssumption, Zenon DEF One
<1>4. d.yays \in Nat /\ d.nays \in Nat
  BY DisputeFields
<1>5. unVote(d, n) = [d EXCEPT !.votes = votes, !.yays = CountOf(votes, TRUE),
                               !.nays = CountOf(votes, FALSE)]
  BY <1>1, <1>2, <1>3, <1>4 DEF unVote, Dispute, One
<1> QED
  BY <1>0, <1>5, WithCounts

-----------------------------------------------------------------------------
(***************************************************************************)
(* What updateVote does to our vote.                                       *)
(***************************************************************************)
Settled(d) == IF d.ourVote THEN d.nays = 0 ELSE d.yays = 0
Needed(d, pct) == getNeededWeight(d.avalancheState, pct, d.avalancheCounter + 1, avMinRounds)
Weight(d) == (d.yays * 100 + 100 * One(d.ourVote)) \div (d.nays + d.yays + 1)
NewVote(d, pct, prop) == IF prop THEN Weight(d) > Needed(d, pct).pct ELSE d.yays > d.nays

(* Division does not reverse an order. *)
LEMMA DivMonotone ==
    ASSUME NEW a \in Nat, NEW b \in Nat, NEW k \in Nat \ {0}, a <= b
    PROVE  a \div k <= b \div k
  OBVIOUS

(* Another yes vote, ours, does not reduce the share of yes votes. *)
LEMMA ShareMonotone ==
    ASSUME NEW yays \in Nat, NEW nays \in Nat
    PROVE  LET less == (yays * 100) \div (nays + yays + 1)
               more == (yays * 100 + 100) \div (nays + yays + 1)
           IN  less \in Int /\ more \in Int /\ less <= more
<1> DEFINE a == yays * 100
           b == yays * 100 + 100
           k == nays + yays + 1
<1>1. a \in Nat /\ b \in Nat /\ k \in Nat \ {0} /\ a <= b
  OBVIOUS
<1> HIDE DEF a, b, k
<1>2. a \div k \in Int /\ b \div k \in Int
  BY <1>1
<1>3. a \div k <= b \div k
  BY <1>1, DivMonotone
<1> QED
  BY <1>2, <1>3 DEF a, b, k

(* The next level of the avalanche. *)
LEMMA NeededType ==
    ASSUME NEW state \in AvalancheState, NEW pct, NEW r, NEW m
    PROVE  LET need == getNeededWeight(state, pct, r, m)
           IN  /\ need.state \in AvalancheState
               /\ need.pct = avalancheCutoffs[need.state].consensusPct
               /\ need.pct \in Nat
               /\ state = "Stuck" => need.state = "Stuck" /\ need.pct = 95
  BY DEF getNeededWeight, movesOn, NeededAt, AvalancheState, avalancheCutoffs

(* updateVote leaves a settled dispute alone and otherwise votes again. *)
LEMMA UpdateVoteFields ==
    ASSUME NEW d \in Dispute, NEW pct, NEW prop \in BOOLEAN
    PROVE  LET e == updateVote(d, pct, prop)
           IN  /\ Settled(d) => e = d
               /\ ~Settled(d) => /\ e.ourVote = NewVote(d, pct, prop)
                                 /\ e.avalancheState = Needed(d, pct).state
               /\ e.votes = d.votes /\ e.yays = d.yays /\ e.nays = d.nays
  BY DEF updateVote, reconsider, castVote, Settled, Needed, Weight, NewVote, Dispute

(* Our vote is a vote. *)
LEMMA NewVoteType ==
    ASSUME NEW d \in Dispute, NEW pct, NEW prop \in BOOLEAN
    PROVE  NewVote(d, pct, prop) \in BOOLEAN
<1>1. (Weight(d) > Needed(d, pct).pct) \in BOOLEAN /\ (d.yays > d.nays) \in BOOLEAN
  OBVIOUS
<1> QED
  BY <1>1, Zenon DEF NewVote

(* The dispute keeps its type and its tallies. *)
LEMMA UpdateVoteCounts ==
    ASSUME NEW d \in Dispute, Counted(d), NEW pct, NEW prop \in BOOLEAN
    PROVE  updateVote(d, pct, prop) \in Dispute /\ Counted(updateVote(d, pct, prop))
<1> DEFINE e == updateVote(d, pct, prop)
<1>1. Counted(e)
  BY UpdateVoteFields DEF Counted
<1>2. CASE Settled(d)
  BY <1>1, <1>2, UpdateVoteFields
<1>3. CASE ~Settled(d)
  <2> DEFINE need == Needed(d, pct)
             count == IF need.moved THEN 0 ELSE UpTo(d.avalancheCounter + 1, avMinRounds)
             vote == NewVote(d, pct, prop)
             quiet == IF vote = d.ourVote THEN UpTo(d.currentVoteCounter + 1, avStalledRounds)
                      ELSE 0
  <2>1. need.state \in AvalancheState
    BY DisputeFields, NeededType DEF Needed
  <2>2. vote \in BOOLEAN
    BY NewVoteType
  <2>3. count \in 0 .. avMinRounds /\ quiet \in 0 .. avStalledRounds
    BY DisputeFields, RulesAssumption DEF UpTo
  <2>4. e = [d EXCEPT !.avalancheState = need.state, !.avalancheCounter = count,
                      !.ourVote = vote, !.currentVoteCounter = quiet]
    BY <1>3 DEF updateVote, reconsider, castVote, Settled, Needed, NewVote, Weight, Dispute
  <2> HIDE DEF need, count, vote, quiet, e
  <2>5. e \in Dispute
    BY <2>1, <2>2, <2>3, <2>4 DEF Dispute
  <2> QED
    BY <1>1, <2>5 DEF e
<1> QED
  BY <1>2, <1>3

(* At the last level, a vote that was reconsidered once is not changed by  *)
(* reconsidering it again: our own weight can only confirm it.             *)
LEMMA LastLevelIsFinal ==
    ASSUME NEW d \in Dispute, NEW pct, NEW again, NEW prop \in BOOLEAN,
           updateVote(d, pct, prop) \in Dispute,
           updateVote(d, pct, prop).avalancheState = "Stuck"
    PROVE  updateVote(updateVote(d, pct, prop), again, prop).ourVote
               = updateVote(d, pct, prop).ourVote
<1> DEFINE e == updateVote(d, pct, prop)
<1>1. e \in Dispute /\ e.yays = d.yays /\ e.nays = d.nays /\ e.avalancheState = "Stuck"
  BY UpdateVoteFields
<1>2. Settled(d) => e = d
  BY UpdateVoteFields
<1>3. ~Settled(d) => e.ourVote = NewVote(d, pct, prop) /\ Needed(d, pct).state = "Stuck"
  BY UpdateVoteFields
<1>4. Settled(e) => updateVote(e, again, prop) = e
  BY <1>1, UpdateVoteFields
<1>5. ~Settled(e) => updateVote(e, again, prop).ourVote = NewVote(e, again, prop)
  BY <1>1, UpdateVoteFields
<1> HIDE DEF e
<1>6. CASE Settled(e)
  BY <1>4, <1>6 DEF e
<1>7. CASE ~Settled(e)
  <2>1. ~Settled(d)
    BY <1>2, <1>7
  <2>2. Needed(d, pct).pct = 95 /\ Needed(e, again).pct = 95
    BY <1>1, <1>3, <2>1, DisputeFields, NeededType DEF Needed, avalancheCutoffs
  <2>3. NewVote(e, again, prop) = NewVote(d, pct, prop)
    <3>1. CASE ~prop
      BY <1>1, <3>1 DEF NewVote
    <3>2. CASE prop
      <4>0. /\ d.yays \in Nat /\ d.nays \in Nat
            /\ d.ourVote \in BOOLEAN /\ e.ourVote \in BOOLEAN
        BY <1>1, DisputeFields
      <4>1. e.ourVote = (Weight(d) > 95)
        BY <1>3, <2>1, <2>2, <3>2 DEF NewVote
      <4>2. CASE e.ourVote = d.ourVote
        <5>1. Weight(e) = Weight(d)
          BY <1>1, <4>2 DEF Weight
        <5> QED
          BY <5>1, <2>2, <3>2 DEF NewVote
      <4>3. CASE e.ourVote /\ ~d.ourVote
        <5>1. Weight(d) = (d.yays * 100) \div (d.nays + d.yays + 1)
          BY <4>0, <4>3 DEF Weight, One
        <5>2. Weight(e) = (d.yays * 100 + 100) \div (d.nays + d.yays + 1)
          BY <1>1, <4>0, <4>3 DEF Weight, One
        <5>3. Weight(d) <= Weight(e) /\ Weight(d) \in Int /\ Weight(e) \in Int
          BY <4>0, <5>1, <5>2, ShareMonotone
        <5>4. Weight(d) > 95
          BY <4>1, <4>3, Zenon
        <5>5. Weight(e) > 95
          BY <5>3, <5>4
        <5> QED
          BY <5>4, <5>5, <2>2, <3>2 DEF NewVote
      <4>4. CASE ~e.ourVote /\ d.ourVote
        <5>1. Weight(e) = (d.yays * 100) \div (d.nays + d.yays + 1)
          BY <1>1, <4>0, <4>4 DEF Weight, One
        <5>2. Weight(d) = (d.yays * 100 + 100) \div (d.nays + d.yays + 1)
          BY <4>0, <4>4 DEF Weight, One
        <5>3. Weight(e) <= Weight(d) /\ Weight(d) \in Int /\ Weight(e) \in Int
          BY <4>0, <5>1, <5>2, ShareMonotone
        <5>4. ~(Weight(d) > 95)
          BY <4>1, <4>4, Zenon
        <5>5. ~(Weight(e) > 95)
          BY <5>3, <5>4
        <5> QED
          BY <5>4, <5>5, <2>2, <3>2 DEF NewVote
      <4> QED
        BY <4>0, <4>2, <4>3, <4>4, Zenon
    <3> QED
      BY <3>1, <3>2
  <2> QED
    BY <1>3, <1>5, <1>7, <2>1, <2>3 DEF e
<1> QED
  BY <1>6, <1>7

(* A repeated vote changes nothing. *)
LEMMA RepeatedVote ==
    ASSUME NEW d \in Dispute, NEW n \in NodeID, NEW v \in BOOLEAN, d.votes[n] = v
    PROVE  setVote(d, n, v) = d
<1>1. One(v) = One(d.votes[n] = TRUE) /\ One(~v) = One(d.votes[n] = FALSE)
  BY Zenon DEF One
<1>2. One(v) \in Int /\ One(~v) \in Int
  BY DEF One
<1>3. d.yays + One(v) - One(d.votes[n] = TRUE) = d.yays
  BY <1>1, <1>2, DisputeFields
<1>4. d.nays + One(~v) - One(d.votes[n] = FALSE) = d.nays
  BY <1>1, <1>2, DisputeFields
<1>5. [d.votes EXCEPT ![n] = v] = d.votes
  BY DisputeFields
<1> QED
  BY <1>3, <1>4, <1>5 DEF setVote, Dispute

-----------------------------------------------------------------------------
(***************************************************************************)
(* The inductive invariant.  The tallies are natural numbers only because  *)
(* they count votes, so the type needs CountsMatchVotes; and that a        *)
(* stalled vote is final rests on every vote at the last level being so.   *)
(***************************************************************************)
LastLevelFinal ==
    fresh /\ dispute.avalancheState = "Stuck" =>
        \A pct \in Percent : updateVote(dispute, pct, proposing).ourVote = dispute.ourVote

Inv == TypeOK /\ Counted(dispute) /\ LastLevelFinal

(* The percentages are fixed numbers. *)
LEMMA PercentType == 0 \in Percent /\ Percent \subseteq Nat
<1>1. avalancheCutoffs["Init"].consensusTime = 0 /\ "Init" \in AvalancheState
  BY DEF avalancheCutoffs, AvalancheState
<1>2. \A s \in AvalancheState : avalancheCutoffs[s].consensusTime \in Nat
  BY DEF avalancheCutoffs, AvalancheState
<1> QED
  BY <1>1, <1>2 DEF Percent

(* A dispute starts without votes, so that the tallies are exact. *)
LEMMA InitInv == Init => Inv
<1> SUFFICES ASSUME Init PROVE Inv
  OBVIOUS
<1>1. PICK v \in BOOLEAN : dispute = newDispute(v)
  BY DEF Init
<1> DEFINE none == [n \in NodeID |-> None]
<1>2. CountOf(none, TRUE) = 0 /\ CountOf(none, FALSE) = 0
  <2>1. Voters(none, TRUE) = {} /\ Voters(none, FALSE) = {}
    BY RulesAssumption, Zenon DEF Voters
  <2> QED
    BY <2>1, FS_EmptySet DEF CountOf
<1>3. dispute \in Dispute
  BY <1>1, RulesAssumption DEF newDispute, Dispute, AvalancheState
<1>4. Counted(dispute)
  BY <1>1, <1>2 DEF newDispute, Counted
<1>5. TypeOK
  <2>1. fresh \in BOOLEAN /\ proposing \in BOOLEAN /\ percent \in Percent
    BY PercentType, Zenon DEF Init
  <2>2. peerUnchanged \in 0 .. avStalledRounds /\ changes \in 0 .. MaxChanges
    BY RulesAssumption, MaxChangesAssumption DEF Init
  <2> QED
    BY <1>3, <2>1, <2>2, Zenon DEF TypeOK
<1>6. LastLevelFinal
  BY DEF Init, LastLevelFinal
<1> QED
  BY <1>4, <1>5, <1>6 DEF Inv

(* Votes set, withdrawn and reconsidered keep the invariant. *)
LEMMA NextInv == Inv /\ [Next]_vars => Inv'
<1> SUFFICES ASSUME Inv, [Next]_vars PROVE Inv'
  OBVIOUS
<1>0. /\ dispute \in Dispute /\ Counted(dispute) /\ LastLevelFinal
      /\ proposing \in BOOLEAN /\ fresh \in BOOLEAN /\ percent \in Percent
      /\ peerUnchanged \in 0 .. avStalledRounds /\ changes \in 0 .. MaxChanges
      /\ avStalledRounds \in Nat /\ MaxChanges \in Nat
  BY RulesAssumption, MaxChangesAssumption DEF Inv, TypeOK
<1>1. ASSUME NEW n \in NodeID, NEW v \in BOOLEAN, SetVote(n, v) PROVE Inv'
  <2>1. dispute' \in Dispute /\ Counted(dispute)'
    BY <1>0, <1>1, SetVoteCounts DEF SetVote, Counted
  <2>2. CASE dispute.votes[n] = v
    <3>1. dispute' = dispute /\ proposing' = proposing /\ percent' = percent
      BY <1>0, <1>1, <2>2, RepeatedVote DEF SetVote
    <3>2. fresh' = fresh
      BY <1>0, <1>1, <2>2, Zenon DEF SetVote
    <3>3. peerUnchanged' = peerUnchanged /\ changes' = changes
      BY <1>0, <1>1, <2>2 DEF SetVote, One
    <3>4. TypeOK'
      BY <1>0, <3>1, <3>2, <3>3, PercentType DEF TypeOK
    <3>5. LastLevelFinal'
      BY <1>0, <3>1, <3>2 DEF LastLevelFinal
    <3> QED
      BY <2>1, <3>4, <3>5 DEF Inv, Counted
  <2>3. CASE dispute.votes[n] # v
    <3>1. fresh' = FALSE
      BY <1>1, <2>3, Zenon DEF SetVote
    <3>2. proposing' = proposing /\ percent' = percent /\ peerUnchanged' = 0
      BY <1>1, <2>3 DEF SetVote
    <3>3. changes' \in 0 .. MaxChanges
      BY <1>0, <1>1, <2>3 DEF SetVote, One
    <3>4. TypeOK'
      <4>1. fresh' \in BOOLEAN /\ proposing' \in BOOLEAN /\ percent' \in Percent'
        BY <1>0, <3>1, <3>2, Zenon DEF Percent
      <4>2. peerUnchanged' \in 0 .. avStalledRounds
        BY <1>0, <3>2
      <4> QED
        BY <2>1, <3>3, <4>1, <4>2, Zenon DEF TypeOK
    <3> QED
      BY <2>1, <3>1, <3>4 DEF Inv, Counted, LastLevelFinal
  <2> QED
    BY <2>2, <2>3
<1>2. ASSUME NEW n \in NodeID, UnVote(n) PROVE Inv'
  <2>1. dispute' \in Dispute /\ Counted(dispute)'
    BY <1>0, <1>2, UnVoteCounts DEF UnVote, Counted
  <2>2. TypeOK'
    BY <1>0, <1>2, <2>1 DEF UnVote, TypeOK, Percent
  <2> QED
    BY <1>2, <2>1, <2>2 DEF Inv, Counted, LastLevelFinal, UnVote
<1>3. ASSUME NEW pct \in Percent, UpdateVote(pct) PROVE Inv'
  <2>0. dispute' = updateVote(dispute, pct, proposing) /\ proposing' = proposing
    BY <1>3 DEF UpdateVote
  <2>1. dispute' \in Dispute /\ Counted(dispute)'
    BY <1>0, <2>0, UpdateVoteCounts DEF Counted
  <2>2. TypeOK'
    BY <1>0, <1>3, <2>1 DEF UpdateVote, TypeOK, Percent, UpTo
  <2>3. LastLevelFinal'
    BY <1>0, <2>0, <2>1, LastLevelIsFinal DEF LastLevelFinal, Percent
  <2> QED
    BY <2>1, <2>2, <2>3 DEF Inv, Counted
<1>4. CASE LeaveConsensus
  <2>1. TypeOK'
    BY <1>0, <1>4 DEF LeaveConsensus, TypeOK, Percent
  <2> QED
    BY <1>0, <1>4, <2>1 DEF Inv, Counted, LastLevelFinal, LeaveConsensus
<1>5. CASE UNCHANGED vars
  BY <1>0, <1>5 DEF vars, Inv, TypeOK, Counted, LastLevelFinal, Percent
<1> QED
  BY <1>1, <1>2, <1>3, <1>4, <1>5 DEF Next

(* The invariant holds throughout. *)
LEMMA InvAlways == Spec => []Inv
  BY InitInv, NextInv, PTL DEF Spec

(***************************************************************************)
(* Type correctness of a dispute, the tallies never negative.              *)
(***************************************************************************)
THEOREM TypeCorrect == Spec => []TypeOK
<1>1. Inv => TypeOK
  BY DEF Inv
<1> QED
  BY <1>1, InvAlways, PTL

(***************************************************************************)
(* For any number of peers, voting, changing and withdrawing in any order, *)
(* yays_ and nays_ are the numbers of recorded yes and no votes.           *)
(***************************************************************************)
THEOREM CountsExact == Spec => []CountsMatchVotes
<1>1. Inv => CountsMatchVotes
  BY DEF Inv, Counted, CountOf, Voters, CountsMatchVotes
<1> QED
  BY <1>1, InvAlways, PTL

(***************************************************************************)
(* For any number of peers and any thresholds on rounds, a vote reported   *)
(* as stalled right after updateVote is not changed by updateVote again:   *)
(* only the peers can still change it.                                     *)
(***************************************************************************)
THEOREM StalledFinal == Spec => []StalledIsFinal
<1>1. Inv => StalledIsFinal
  <2> SUFFICES ASSUME Inv, fresh, stalled(dispute, proposing, peerUnchanged)
               PROVE  \A pct \in Percent :
                          updateVote(dispute, pct, proposing).ourVote = dispute.ourVote
    BY DEF StalledIsFinal
  <2>1. dispute.avalancheState = "Stuck"
    <3>1. dispute.avalancheState \in AvalancheState
      BY DisputeFields DEF Inv, TypeOK
    <3>2. avalancheCutoffs[avalancheCutoffs[dispute.avalancheState].next].consensusTime
              <= avalancheCutoffs[dispute.avalancheState].consensusTime
      BY DEF stalled
    <3> QED
      BY <3>1, <3>2 DEF AvalancheState, avalancheCutoffs
  <2> QED
    BY <2>1 DEF Inv, LastLevelFinal
<1> QED
  BY <1>1, InvAlways, PTL

=============================================================================
