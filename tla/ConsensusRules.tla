--------------------------- MODULE ConsensusRules ---------------------------
(***************************************************************************)
(* The rules a round of consensus is decided by: the parameters of         *)
(* ConsensusParms, the thresholds of Consensus.cpp, and the votes on one   *)
(* disputed transaction (DisputedTx).  Percentages are the code's.  The    *)
(* durations are constants, in ticks of the consensus clock.               *)
(***************************************************************************)
EXTENDS Integers, FiniteSets

CONSTANTS
    NodeID,                     \* the trusted peers
    None,
    ledgerMinConsensus, ledgerMaxConsensus,
    ledgerAbandonConsensus, ledgerAbandonConsensusFactor,
    ledgerMinClose, ledgerIdleInterval, longWait,
    avMinConsensusTime, avMinRounds, avStalledRounds,
    proposeFRESHNESS, proposeINTERVAL

ASSUME RulesAssumption ==
    /\ IsFiniteSet(NodeID)
    /\ {ledgerMinConsensus, ledgerMaxConsensus, ledgerAbandonConsensus,
        ledgerAbandonConsensusFactor, ledgerMinClose, ledgerIdleInterval, longWait,
        avMinConsensusTime, avMinRounds, avStalledRounds,
        proposeFRESHNESS, proposeINTERVAL} \subseteq Nat \ {0}
    /\ ledgerMinConsensus < ledgerMaxConsensus
    /\ ledgerMaxConsensus < ledgerAbandonConsensus
    /\ avMinRounds <= avStalledRounds
    /\ proposeINTERVAL < proposeFRESHNESS
    /\ None \notin BOOLEAN

minConsensusPct == 80
avCtConsensusPct == 75

-----------------------------------------------------------------------------
(***************************************************************************)
(* The avalanche: as a round takes longer, more yes votes are required.    *)
(***************************************************************************)
AvalancheState == {"Init", "Mid", "Late", "Stuck"}

avalancheCutoffs ==
    [Init  |-> [consensusTime |-> 0,   consensusPct |-> 50, next |-> "Mid"],
     Mid   |-> [consensusTime |-> 50,  consensusPct |-> 65, next |-> "Late"],
     Late  |-> [consensusTime |-> 85,  consensusPct |-> 70, next |-> "Stuck"],
     Stuck |-> [consensusTime |-> 200, consensusPct |-> 95, next |-> "Stuck"]]

(* Whether enough rounds and time have passed for the next state. *)
movesOn(state, percentTime, rounds, minimumRounds) ==
    LET next == avalancheCutoffs[state].next
    IN  /\ next # state
        /\ rounds >= minimumRounds
        /\ percentTime >= avalancheCutoffs[next].consensusTime

(* The required percentage and the state it belongs to. *)
NeededAt(s, moved) == [pct |-> avalancheCutoffs[s].consensusPct, state |-> s, moved |-> moved]

getNeededWeight(state, percentTime, rounds, minimumRounds) ==
    IF movesOn(state, percentTime, rounds, minimumRounds)
    THEN NeededAt(avalancheCutoffs[state].next, TRUE) ELSE NeededAt(state, FALSE)

participantsNeeded(participants, percent) ==
    LET n == (participants * percent + percent \div 2) \div 100
    IN  IF n = 0 THEN 1 ELSE n

-----------------------------------------------------------------------------
(***************************************************************************)
(* When to close the open ledger, and when a round has reached consensus.  *)
(***************************************************************************)
shouldCloseLedger(anyTransactions, prevProposers, closed, validated, prevRoundTime, sinceClose, openTime) ==
    \/ prevRoundTime > longWait \/ sinceClose > longWait
    \/ closed + validated > prevProposers \div 2
    \/ ~anyTransactions /\ sinceClose >= ledgerIdleInterval
    \/ /\ anyTransactions
       /\ openTime >= ledgerMinClose
       /\ openTime >= prevRoundTime \div 2

checkConsensusReached(agreeing, total, countSelf, reachedMax, stalled) ==
    LET self == IF countSelf THEN 1 ELSE 0
    IN  IF total = 0 THEN reachedMax
        ELSE stalled \/ ((agreeing + self) * 100) \div (total + self) >= minConsensusPct

ConsensusState == {"No", "MovedOn", "Expired", "Yes"}

Clamp(x, low, high) == IF x < low THEN low ELSE IF x > high THEN high ELSE x

checkConsensus(prevProposers, proposers, agree, finished, prevTime, time, stalled, proposing) ==
    LET reachedMax == time > ledgerMaxConsensus
        tooFast    == /\ proposers < (prevProposers * 3) \div 4
                      /\ time < prevTime + ledgerMinConsensus
    IN  CASE time <= ledgerMinConsensus \/ tooFast -> "No"
          [] OTHER ->
             IF checkConsensusReached(agree, proposers, proposing, reachedMax, stalled)
             THEN "Yes"
             ELSE IF checkConsensusReached(finished, proposers, FALSE, reachedMax, FALSE)
             THEN "MovedOn"
             ELSE IF time > Clamp(prevTime * ledgerAbandonConsensusFactor,
                                  ledgerMaxConsensus, ledgerAbandonConsensus)
             THEN "Expired"
             ELSE "No"

-----------------------------------------------------------------------------
(***************************************************************************)
(* A disputed transaction: our vote, the votes of the peers, with their    *)
(* tallies, and how long the vote has lasted.  The counters are compared   *)
(* with avMinRounds and avStalledRounds only and stop there (UpTo).        *)
(***************************************************************************)
Dispute ==
    [ourVote : BOOLEAN, votes : [NodeID -> BOOLEAN \cup {None}],
     yays : Nat, nays : Nat, currentVoteCounter : 0 .. avStalledRounds,
     avalancheState : AvalancheState, avalancheCounter : 0 .. avMinRounds]

UpTo(n, cap) == IF n > cap THEN cap ELSE n

newDispute(ourVote) ==
    [ourVote |-> ourVote, votes |-> [n \in NodeID |-> None],
     yays |-> 0, nays |-> 0, currentVoteCounter |-> 0,
     avalancheState |-> "Init", avalancheCounter |-> 0]

One(b) == IF b THEN 1 ELSE 0

(* Here and below D_Variant is definition D with a plausible mistake, which *)
(* some property must tell from D.                                         *)
setVote_CountsAgain(d, peer, votesYes) ==
    [d EXCEPT !.votes[peer] = votesYes,
              !.yays = @ + One(votesYes),
              !.nays = @ + One(~votesYes) - One(d.votes[peer] = FALSE)]

(* The peer's vote is recorded; one that is new or changed is counted. *)
setVote(d, peer, votesYes) ==
    LET old == d.votes[peer]
    IN  [d EXCEPT !.votes[peer] = votesYes,
                  !.yays = @ + One(votesYes) - One(old = TRUE),
                  !.nays = @ + One(~votesYes) - One(old = FALSE)]

unVote_Swapped(d, peer) ==
    [d EXCEPT !.votes[peer] = None,
              !.yays = @ - One(d.votes[peer] = FALSE),
              !.nays = @ - One(d.votes[peer] = TRUE)]

unVote(d, peer) ==
    [d EXCEPT !.votes[peer] = None,
              !.yays = @ - One(d.votes[peer] = TRUE),
              !.nays = @ - One(d.votes[peer] = FALSE)]

updateVote_AgainstUs(d, percentTime, proposing) ==
    LET need   == getNeededWeight(d.avalancheState, percentTime,
                                  d.avalancheCounter + 1, avMinRounds)
        weight == (d.yays * 100 + 100 * One(~d.ourVote)) \div (d.nays + d.yays + 1)
    IN  [d EXCEPT !.avalancheState = need.state,
                  !.ourVote = IF proposing THEN weight > need.pct ELSE d.yays > d.nays]

(* Our vote becomes vote, at the level of the avalanche of need. *)
castVote(d, vote, need) ==
    [d EXCEPT !.avalancheState = need.state,
              !.avalancheCounter = IF need.moved THEN 0 ELSE UpTo(@ + 1, avMinRounds),
              !.ourVote = vote,
              !.currentVoteCounter =
                  IF vote = d.ourVote THEN UpTo(@ + 1, avStalledRounds) ELSE 0]

(* Our own vote, if we propose, has the weight of a peer's. *)
reconsider(d, need, proposing) ==
    LET weight == (d.yays * 100 + 100 * One(d.ourVote)) \div (d.nays + d.yays + 1)
    IN  castVote(d, IF proposing THEN weight > need.pct ELSE d.yays > d.nays, need)

(* Our vote again, as the time that has passed requires more yes votes.  A *)
(* transaction nobody disagrees with us on is left alone.                  *)
updateVote(d, percentTime, proposing) ==
    IF IF d.ourVote THEN d.nays = 0 ELSE d.yays = 0 THEN d
    ELSE reconsider(d, getNeededWeight(d.avalancheState, percentTime,
                                       d.avalancheCounter + 1, avMinRounds), proposing)

stalled_AnyLevel(d, proposing, peersUnchanged) ==
    LET total  == d.nays + d.yays + One(proposing)
        weight == ((d.yays + One(proposing /\ d.ourVote)) * 100) \div total
    IN  /\ peersUnchanged >= avStalledRounds \/ d.currentVoteCounter >= avStalledRounds
        /\ total # 0
        /\ weight > minConsensusPct \/ weight < 100 - minConsensusPct

(* Nobody is likely to change this vote any more. *)
stalled(d, proposing, peersUnchanged) ==
    LET cutoff == avalancheCutoffs[d.avalancheState]
        total  == d.nays + d.yays + One(proposing)
        weight == ((d.yays + One(proposing /\ d.ourVote)) * 100) \div total
    IN  /\ avalancheCutoffs[cutoff.next].consensusTime <= cutoff.consensusTime
        /\ d.avalancheCounter >= avMinRounds
        /\ ~proposing \/ d.currentVoteCounter >= avMinRounds
        /\ \/ peersUnchanged >= avStalledRounds
           \/ ~proposing
           \/ d.currentVoteCounter >= avStalledRounds
        /\ total # 0
        /\ weight > minConsensusPct \/ weight < 100 - minConsensusPct

=============================================================================
