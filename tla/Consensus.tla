----------------------------- MODULE Consensus -----------------------------
(***************************************************************************)
(* One node's consensus engine, Consensus<Adaptor>, and everything that    *)
(* calls it: the heartbeat timer, the proposals of trusted peers, arriving *)
(* transaction sets, and the application that starts the next round.  The  *)
(* calls are serialised by RCLConsensus' mutex, so each is one action; the *)
(* engine is one record, and a handler maps it to the engines it may leave *)
(* behind, one for each answer of the adaptor.                             *)
(*                                                                         *)
(* A transaction set is its own ID.  Clock readings are kept as the time   *)
(* that has passed since, up to the largest value the code tells apart.    *)
(* Here, too, D_Variant is definition D with a plausible mistake.          *)
(***************************************************************************)
EXTENDS ConsensusRules, Sequences

LOCAL INSTANCE SequencesExt

CONSTANTS
    LedgerID, Tx,
    CloseTime,          \* network times at which a ledger may be closed
    Resolution,         \* closeResolution_
    Delay,              \* ticks from one heartbeat to the next
    CloseAge,           \* time since the previous ledger closed, as a round starts
    RecentPositions,    \* length of a peer's queue of recent positions (10)
    MaxSeq,             \* proposals are numbered up to here, and kSeqLeave
    Proposals,          \* what peers may propose
    MaxProposals,       \* proposals the peers send in a behaviour
    MaxRounds,          \* rounds started in a behaviour
    MaxRoundTime,       \* a longer round is remembered as one of this length
    RoundTimeCap        \* where the timer of a round stops

ASSUME ConsensusAssumption ==
    /\ CloseTime \subseteq Nat \ {0}
    /\ Delay \subseteq Nat \ {0}
    /\ CloseAge \subseteq 0 .. longWait + 1
    /\ {Resolution, RecentPositions, MaxSeq, MaxProposals, MaxRounds, MaxRoundTime,
        RoundTimeCap} \subseteq Nat \ {0}
    /\ Proposals \subseteq
          [prev : LedgerID, seq : 0 .. MaxSeq + 1, set : SUBSET Tx, closeTime : CloseTime]
    /\ MaxRoundTime >= avMinConsensusTime
    /\ RoundTimeCap > ledgerAbandonConsensus
    /\ RoundTimeCap >= 2 * MaxRoundTime
    /\ RoundTimeCap >= MaxRoundTime + ledgerMinConsensus

VARIABLES
    cons,               \* the Consensus object
    left,               \* proposals the peers may still send
    rounds,             \* rounds started so far
    standalone          \* whether the server runs without a network

vars == <<cons, left, rounds, standalone>>

-----------------------------------------------------------------------------
(***************************************************************************)
(* Positions and the state of the engine.                                  *)
(***************************************************************************)
TxSet == SUBSET Tx

kSeqJoin == 0
kSeqLeave == MaxSeq + 1
isBowOut(p) == p.seq = kSeqLeave

NoTime == 0                        \* NetClock::time_point{}

(* A proposal of a peer, with the time since it was seen. *)
PeerPosition ==
    [node : NodeID, prev : LedgerID, seq : 0 .. kSeqLeave, set : TxSet,
     closeTime : CloseTime, age : 0 .. proposeFRESHNESS]

(* Our own position on the set result.txns.  Its number stops at MaxSeq. *)
Position ==
    [seq : 0 .. kSeqLeave, closeTime : Nat, age : 0 .. proposeINTERVAL]

changePosition(p, closeTime) ==
    [seq |-> IF isBowOut(p) THEN p.seq ELSE UpTo(p.seq + 1, MaxSeq),
     closeTime |-> closeTime, age |-> 0]

bowOut(p) == [p EXCEPT !.seq = kSeqLeave, !.age = 0]

(* ConsensusResult. *)
Result ==
    [txns : TxSet, position : Position,
     disputes : [Tx -> Dispute \cup {None}], compares : SUBSET TxSet,
     roundTime : 0 .. RoundTimeCap, state : ConsensusState]

(* What was last broadcast in this round, for the properties only. *)
Sent == [txns : TxSet, seq : 0 .. kSeqLeave, closeTime : Nat]

Phase == {"Open", "Establish", "Accepted"}
Mode == {"Proposing", "Observing", "WrongLedger", "SwitchedLedger"}

Engine ==
    [phase : Phase, mode : Mode, prevLedgerID : LedgerID, previousLedger : LedgerID,
     haveCloseTimeConsensus : BOOLEAN, closeTimeAvalancheState : AvalancheState,
     acquired : SUBSET TxSet, result : Result \cup {None},
     peerUnchangedCounter : 0 .. avStalledRounds,
     establishCounter : 0 .. 4 * avMinRounds,
     currPeerPositions : [NodeID -> PeerPosition \cup {None}],
     recentPeerPositions : [NodeID -> Seq(PeerPosition)],
     deadNodes : SUBSET NodeID, prevProposers : 0 .. Cardinality(NodeID),
     prevRoundTime : 0 .. MaxRoundTime, openTime : 0 .. ledgerMinClose + MaxRoundTime,
     sinceClose : 0 .. longWait + 1, sent : Sent \cup {None}]

Peers(c) == {n \in NodeID : c.currPeerPositions[n] # None}
PeersAt(c, set) == {n \in Peers(c) : c.currPeerPositions[n].set = set}

asCloseTime(t) ==
    IF t = NoTime THEN NoTime
    ELSE LET u == t + Resolution \div 2 IN u - (u % Resolution)

(* adaptor_.propose: our position is broadcast. *)
Said(r) == [txns |-> r.txns, seq |-> r.position.seq, closeTime |-> r.position.closeTime]

propose(c) == [c EXCEPT !.sent = Said(c.result)]

-----------------------------------------------------------------------------
(***************************************************************************)
(* Disputes.  The peers' votes on a dispute are set together here, as one  *)
(* setVote or unVote for each of them leaves it.                           *)
(***************************************************************************)
WithVotes(d, votes) ==
    [d EXCEPT !.votes = votes,
              !.yays = Cardinality({n \in NodeID : votes[n] = TRUE}),
              !.nays = Cardinality({n \in NodeID : votes[n] = FALSE})]

NoDisputes == [t \in Tx |-> None]

Disputed(disputes) == {t \in Tx : disputes[t] # None}

unVoteAll_Keeps(disputes, N) == disputes

unVoteAll(disputes, N) ==
    [t \in Tx |->
        IF disputes[t] = None THEN None
        ELSE WithVotes(disputes[t],
                 [n \in NodeID |-> IF n \in N THEN None ELSE disputes[t].votes[n]])]

(* Disputes between our set and each of the sets not compared yet, with    *)
(* the votes of the peers whose sets we have.                              *)
createDisputes(c, sets) ==
    LET r      == c.result
        fresh  == sets \ r.compares
        txs    == UNION {(r.txns \ o) \cup (o \ r.txns) : o \in fresh} \ Disputed(r.disputes)
        known  == {n \in Peers(c) : c.currPeerPositions[n].set \in c.acquired}
        dtx(t) == WithVotes(newDispute(t \in r.txns),
                      [n \in NodeID |-> IF n \in known
                                        THEN t \in c.currPeerPositions[n].set ELSE None])
    IN  [c EXCEPT
            !.result.compares = @ \cup fresh,
            !.result.disputes = [t \in Tx |-> IF t \in txs THEN dtx(t) ELSE @[t]],
            !.peerUnchangedCounter = IF txs # {} /\ known # {} THEN 0 ELSE @]

(* The peers N vote on every dispute as the set other does. *)
voteAs(c, N, other) ==
    LET ds == c.result.disputes
    IN  [c EXCEPT
            !.result.disputes = [t \in Tx |->
                IF ds[t] = None THEN None
                ELSE WithVotes(ds[t], [n \in NodeID |->
                         IF n \in N THEN t \in other ELSE ds[t].votes[n]])],
            !.peerUnchangedCounter =
                IF \E t \in Disputed(ds), n \in N : ds[t].votes[n] # (t \in other)
                THEN 0 ELSE @]

(* The peers N have adopted the set other. *)
updateDisputes(c, N, other) ==
    voteAs(IF N = {} THEN c ELSE createDisputes(c, {other}), N, other)

-----------------------------------------------------------------------------
(***************************************************************************)
(* Arrivals: transaction sets and the positions of peers.  avail are the   *)
(* sets acquireTxSet returns at once; the others arrive later.             *)
(***************************************************************************)
gotTxSet_NoDisputes(c, set) ==
    IF c.phase = "Accepted" THEN c ELSE [c EXCEPT !.acquired = @ \cup {set}]

gotTxSet_AfterAccept(c, set) ==
    IF set \in c.acquired THEN c
    ELSE LET c1 == [c EXCEPT !.acquired = @ \cup {set}]
         IN  IF c.result = None THEN c1
             ELSE updateDisputes(c1, PeersAt(c1, set), set)

gotTxSet(c, set) ==
    IF c.phase = "Accepted" \/ set \in c.acquired THEN c
    ELSE LET c1 == [c EXCEPT !.acquired = @ \cup {set}]
         IN  IF c.result = None THEN c1
             ELSE updateDisputes(c1, PeersAt(c1, set), set)

peerProposalInternal(c, p, avail) ==
    LET n       == p.node
        ignored == \/ c.phase = "Accepted"
                   \/ p.prev # c.prevLedgerID
                   \/ n \in c.deadNodes
                   \/ n \in Peers(c) /\ p.seq <= c.currPeerPositions[n].seq
        bowsOut == [c EXCEPT
                       !.result = IF @ = None THEN None
                                  ELSE [@ EXCEPT !.disputes = unVoteAll(@, {n})],
                       !.currPeerPositions[n] = None,
                       !.deadNodes = @ \cup {n}]
        moved   == [c EXCEPT !.currPeerPositions[n] = p]
    IN  CASE ignored -> c
          [] ~ignored /\ isBowOut(p) -> bowsOut
          [] ~ignored /\ ~isBowOut(p) ->
             IF p.set \notin c.acquired
             THEN IF p.set \in avail THEN gotTxSet(moved, p.set) ELSE moved
             ELSE IF c.result = None THEN moved
             ELSE updateDisputes(moved, {n}, p.set)

peerProposal_NeverForgets(c, p, avail) ==
    peerProposalInternal([c EXCEPT !.recentPeerPositions[p.node] = Append(@, p)], p, avail)

peerProposal(c, p, avail) ==
    LET queue == c.recentPeerPositions[p.node]
        room  == IF Len(queue) >= RecentPositions THEN Tail(queue) ELSE queue
    IN  peerProposalInternal([c EXCEPT !.recentPeerPositions[p.node] = Append(room, p)],
                             p, avail)

(* The recent positions again, peer by peer in the order of the hash map. *)
playbackProposals(c, avail) ==
    {FoldLeft(LAMBDA e, p : peerProposalInternal(e, p, avail), c,
              FlattenSeq([i \in DOMAIN order |-> c.recentPeerPositions[order[i]]]))
        : order \in SetToSeqs({n \in NodeID : c.recentPeerPositions[n] # <<>>})}

-----------------------------------------------------------------------------
(***************************************************************************)
(* The open phase.                                                         *)
(***************************************************************************)
closeLedger(c) ==
    {LET r  == [txns |-> txns,
                position |-> [seq |-> kSeqJoin, closeTime |-> t, age |-> 0],
                disputes |-> NoDisputes, compares |-> {},
                roundTime |-> 0, state |-> "No"]
         c1 == [c EXCEPT !.phase = "Establish", !.result = r,
                         !.peerUnchangedCounter = 0, !.establishCounter = 0,
                         !.acquired = @ \cup {txns}]
         c2 == IF c.mode = "Proposing" THEN propose(c1) ELSE c1
     IN  createDisputes(c2, {c2.currPeerPositions[n].set : n \in Peers(c2)} \cap c2.acquired)
        : txns \in TxSet, t \in CloseTime}

phaseOpen(c) ==
    LET close(any, validated) ==
            shouldCloseLedger(any, c.prevProposers, Cardinality(Peers(c)), validated,
                              c.prevRoundTime, c.sinceClose, c.openTime)
        answers == {close(any, v) : any \in BOOLEAN, v \in 0 .. Cardinality(NodeID)}
    IN  (IF TRUE \in answers THEN closeLedger(c) ELSE {})
            \cup (IF FALSE \in answers THEN {c} ELSE {})

-----------------------------------------------------------------------------
(***************************************************************************)
(* The establish phase.                                                    *)
(***************************************************************************)
leaveConsensus_Silent(c) ==
    IF c.mode = "Proposing" THEN [c EXCEPT !.mode = "Observing"] ELSE c

leaveConsensus(c) ==
    LET c1 == IF c.result # None /\ ~isBowOut(c.result.position)
              THEN propose([c EXCEPT !.result.position = bowOut(@)])
              ELSE c
    IN  IF c.mode = "Proposing" THEN [c1 EXCEPT !.mode = "Observing"] ELSE c

(* The votes for the close time t, ours included if we propose. *)
closeTimeVotes(c, t) ==
    Cardinality({n \in Peers(c) : asCloseTime(c.currPeerPositions[n].closeTime) = t})
        + One(c.mode = "Proposing" /\ asCloseTime(c.result.position.closeTime) = t)

(* The close time with the most votes, the latest of them if several have  *)
(* as many.                                                                *)
mostVotedCloseTime(c) ==
    LET times == {asCloseTime(c.currPeerPositions[n].closeTime) : n \in Peers(c)}
                     \cup {asCloseTime(c.result.position.closeTime)}
        votes == [t \in times |-> closeTimeVotes(c, t)]
    IN  CHOOSE t \in times : \A u \in times :
            votes[t] > votes[u] \/ (votes[t] = votes[u] /\ t >= u)

(* It is ours if enough vote for it, and whether that is consensus. *)
judgeCloseTime(c, best, need) ==
    LET count  == Cardinality(Peers(c)) + One(c.mode = "Proposing")
        enough == closeTimeVotes(c, best) >= participantsNeeded(count, need.pct)
    IN  [time |-> IF enough THEN best ELSE NoTime,
         have |-> /\ enough
                  /\ closeTimeVotes(c, best) >= participantsNeeded(count, avCtConsensusPct),
         state |-> need.state]

closeTimeConsensus(c, percent) ==
    IF Peers(c) = {}
    THEN [time |-> asCloseTime(c.result.position.closeTime), have |-> TRUE,
          state |-> c.closeTimeAvalancheState]
    ELSE judgeCloseTime(c, mostVotedCloseTime(c),
                        getNeededWeight(c.closeTimeAvalancheState, percent, 0, 0))

dropStale_Never(c) == c

dropStale(c) ==
    LET stale == {n \in Peers(c) : c.currPeerPositions[n].age >= proposeFRESHNESS}
    IN  [c EXCEPT !.result.disputes = unVoteAll(@, stale),
                  !.currPeerPositions = [n \in NodeID |-> IF n \in stale THEN None ELSE @[n]]]

(* A new position is broadcast if we propose. *)
speak(c) ==
    IF c.mode = "Proposing" /\ ~isBowOut(c.result.position) THEN propose(c) ELSE c

(* Our position moves to the set txns. *)
takePosition(c, txns, closeTime) ==
    LET c1 == [c EXCEPT !.result.txns = txns,
                        !.result.position = changePosition(@, closeTime),
                        !.acquired = @ \cup {txns}]
    IN  speak(IF txns \in c.acquired THEN c1
              ELSE updateDisputes(c1, PeersAt(c1, txns), txns))

(* The votes on the disputes are new, and the close time is ct. *)
revise(c, new, ct) ==
    LET old     == c.result.disputes
        p       == c.result.position
        changed == {t \in Disputed(old) : new[t].ourVote # old[t].ourVote}
        c1      == [c EXCEPT !.result.disputes = new,
                             !.haveCloseTimeConsensus = ct.have,
                             !.closeTimeAvalancheState = ct.state]
    IN  IF \/ changed # {}
           \/ ct.time # asCloseTime(p.closeTime)
           \/ p.age >= proposeINTERVAL
        THEN takePosition(c1, (c.result.txns \ changed) \cup {t \in changed : new[t].ourVote},
                          ct.time)
        ELSE c1

(* Our votes on the disputes, reconsidered. *)
newVotes(c, percent) ==
    [t \in Tx |-> IF c.result.disputes[t] = None THEN None
                  ELSE updateVote(c.result.disputes[t], percent, c.mode = "Proposing")]

reviseFresh(c, percent) == revise(c, newVotes(c, percent), closeTimeConsensus(c, percent))

updateOurPositions(c, percent) == reviseFresh(dropStale(c), percent)

(* Every dispute is stalled, and there is one. *)
allStalled(c) ==
    LET ds == c.result.disputes
    IN  /\ c.haveCloseTimeConsensus
        /\ Disputed(ds) # {}
        /\ \A t \in Disputed(ds) :
              stalled(ds[t], c.mode = "Proposing", c.peerUnchangedCounter)

(* The engine after haveConsensus has found the state, when it returns TRUE *)
(* (done) or FALSE.                                                        *)
conclude(c, state) ==
    LET c1 == [c EXCEPT !.result.state = state]
    IN  CASE state = "No" -> [engine |-> c1, done |-> FALSE]
          [] state = "Expired" ->
             IF c.establishCounter < 4 * avMinRounds
             THEN [engine |-> c1, done |-> FALSE]
             ELSE [engine |-> leaveConsensus(c1), done |-> TRUE]
          [] state \in {"Yes", "MovedOn"} -> [engine |-> c1, done |-> TRUE]

haveConsensus(c, finished) ==
    conclude(c, checkConsensus(c.prevProposers, Cardinality(Peers(c)),
                               Cardinality(PeersAt(c, c.result.txns)), finished,
                               c.prevRoundTime, c.result.roundTime, allStalled(c),
                               c.mode = "Proposing"))

accept(c) ==
    [c EXCEPT !.phase = "Accepted", !.prevProposers = Cardinality(Peers(c)),
              !.prevRoundTime = UpTo(c.result.roundTime, MaxRoundTime)]

(* shouldPause: whether it waits for laggards depends on what the other    *)
(* validators have validated, but it never waits beyond                    *)
(* ledgerMaxConsensus.                                                     *)
shouldPause(c) == IF c.result.roundTime > ledgerMaxConsensus THEN {FALSE} ELSE BOOLEAN

convergePercent(c) ==
    (c.result.roundTime * 100) \div
        (IF c.prevRoundTime < avMinConsensusTime THEN avMinConsensusTime ELSE c.prevRoundTime)

(* The end of phaseEstablish, our position having been updated. *)
acceptIfDone(h) ==
    IF h.done /\ h.engine.haveCloseTimeConsensus THEN accept(h.engine) ELSE h.engine

mayAccept(c) ==
    (IF TRUE \in shouldPause(c) THEN {c} ELSE {})
        \cup {acceptIfDone(haveConsensus(c, f)) : f \in 0 .. Cardinality(NodeID)}

phaseEstablish(c) ==
    LET c1 == [c EXCEPT !.peerUnchangedCounter = UpTo(@ + 1, avStalledRounds),
                        !.establishCounter = UpTo(@ + 1, 4 * avMinRounds)]
    IN  IF c.result.roundTime < ledgerMinConsensus THEN {c1}
        ELSE mayAccept(updateOurPositions(c1, convergePercent(c)))

-----------------------------------------------------------------------------
(***************************************************************************)
(* Rounds.  a holds the answers of the adaptor during one call: net, the   *)
(* ledger the network prefers (getPrevLedger); have, the ledgers that      *)
(* acquireLedger has; and avail, the transaction sets that acquireTxSet    *)
(* has.                                                                    *)
(***************************************************************************)
Many(c) == Cardinality(Peers(c)) > c.prevProposers \div 2

restart(c, id, ledger, mode, avail) ==
    UNION {playbackProposals(
        [c EXCEPT !.phase = "Open", !.mode = mode,
                  !.prevLedgerID = id, !.previousLedger = ledger, !.result = None,
                  !.closeTimeAvalancheState = "Init", !.haveCloseTimeConsensus = FALSE,
                  !.currPeerPositions = [n \in NodeID |-> None],
                  !.acquired = {}, !.deadNodes = {}, !.openTime = 0, !.sinceClose = since],
        avail) : since \in CloseAge}

switchLedger_KeepsLedger(c, a) ==
    restart(c, a.net, c.previousLedger, "SwitchedLedger", a.avail)

(* startRoundInternal from handleWrongLedger: with the preferred ledger in *)
(* hand, the call of timerEntry it may end with finds nothing wrong.       *)
switchLedger(c, a) ==
    UNION {IF Many(d) THEN phaseOpen(d) ELSE {d}
              : d \in restart(c, a.net, a.net, "SwitchedLedger", a.avail)}

aimAt_KeepsPositions(c, id) == [c EXCEPT !.prevLedgerID = id]

(* handleWrongLedger, the first time it is told of this ledger. *)
aimAt(c, id) ==
    [c EXCEPT !.prevLedgerID = id,
              !.result = IF @ = None THEN None
                         ELSE [@ EXCEPT !.disputes = NoDisputes, !.compares = {}],
              !.currPeerPositions = [n \in NodeID |-> None],
              !.deadNodes = {}]

handleWrongLedger(c, a) ==
    LET c1     == leaveConsensus(c)
        synced == IF c1.prevLedgerID = a.net THEN {c1}
                  ELSE playbackProposals(aimAt(c1, a.net), a.avail)
    IN  UNION {CASE d.previousLedger = a.net -> {d}
                 [] d.previousLedger # a.net /\ a.net \in a.have -> switchLedger(d, a)
                 [] d.previousLedger # a.net /\ a.net \notin a.have ->
                        {[d EXCEPT !.mode = "WrongLedger"]}
                  : d \in synced}

checkLedger(c, a) ==
    IF a.net # c.prevLedgerID \/ c.previousLedger # c.prevLedgerID
    THEN handleWrongLedger(c, a) ELSE {c}

timerEntry(c, a) ==
    UNION {IF d.phase = "Open" THEN phaseOpen(d) ELSE phaseEstablish(d)
              : d \in checkLedger(c, a)}

startRound(c, id, ledger, untrusted, proposing, a) ==
    LET c1    == [c EXCEPT !.sent = None,
                           !.recentPeerPositions =
                               [n \in NodeID |-> IF n \in untrusted THEN <<>> ELSE @[n]]]
        right == ledger = id \/ id \in a.have
        mode  == IF ~right THEN "WrongLedger"
                 ELSE IF proposing THEN "Proposing" ELSE "Observing"
    IN  UNION {IF Many(d) THEN timerEntry(d, a) ELSE {d}
                  : d \in restart(c1, id, IF right THEN id ELSE ledger, mode, a.avail)}

(* Standalone, for the ledger_accept command: closed, and accepted as is   *)
(* after a simulated delay.                                                *)
simulate(c) ==
    {accept([d EXCEPT !.result.roundTime = UpTo(k, RoundTimeCap)])
        : d \in closeLedger(c), k \in Delay}

-----------------------------------------------------------------------------
(***************************************************************************)
(* The callers.                                                            *)
(***************************************************************************)
Init ==
    /\ standalone \in BOOLEAN
    /\ rounds = 0
    /\ left = IF standalone THEN 0 ELSE MaxProposals
    /\ \E l \in LedgerID : cons =
         [phase |-> "Accepted", mode |-> "Observing",
          prevLedgerID |-> l, previousLedger |-> l,
          haveCloseTimeConsensus |-> FALSE, closeTimeAvalancheState |-> "Init",
          acquired |-> {}, result |-> None, peerUnchangedCounter |-> 0,
          establishCounter |-> 0, currPeerPositions |-> [n \in NodeID |-> None],
          recentPeerPositions |-> [n \in NodeID |-> <<>>], deadNodes |-> {},
          prevProposers |-> 0, prevRoundTime |-> UpTo(ledgerIdleInterval, MaxRoundTime),
          openTime |-> 0, sinceClose |-> 0, sent |-> None]

(* The sets named by recent positions, which is what a call may ask for. *)
RecentSets(c) ==
    UNION {{c.recentPeerPositions[n][i].set : i \in DOMAIN c.recentPeerPositions[n]}
              : n \in NodeID}

(* What the adaptor may answer during a call of timerEntry, in which only  *)
(* the preferred ledger is asked for, and nothing at all if it is the one  *)
(* we work from.                                                           *)
Answers(c) ==
    UNION {IF l = c.prevLedgerID /\ l = c.previousLedger
           THEN {[net |-> l, have |-> {}, avail |-> {}]}
           ELSE [net : {l}, have : {{}, {l}}, avail : SUBSET RecentSets(c)]
              : l \in LedgerID}

(* beginConsensus, when the last round has been accepted. *)
StartRound ==
    /\ cons.phase = "Accepted"
    /\ ~standalone
    /\ rounds < MaxRounds
    /\ rounds' = rounds + 1
    /\ \E id, ledger \in LedgerID, proposing \in BOOLEAN,
          untrusted \in SUBSET {n \in NodeID : cons.recentPeerPositions[n] # <<>>},
          a \in [net : LedgerID, have : SUBSET LedgerID, avail : SUBSET RecentSets(cons)] :
            cons' \in startRound(cons, id, ledger, untrusted, proposing, a)
    /\ UNCHANGED <<left, standalone>>

(* k ticks pass: every clock reading is that much further back. *)
Later(c, k) ==
    LET older(p) == [p EXCEPT !.age = UpTo(@ + k, proposeFRESHNESS)]
    IN  [c EXCEPT
          !.currPeerPositions =
              [n \in NodeID |-> IF n \in Peers(c) THEN older(@[n]) ELSE None],
          !.recentPeerPositions =
              [n \in NodeID |-> [i \in DOMAIN @[n] |-> older(@[n][i])]],
          !.openTime = UpTo(@ + k, ledgerMinClose + MaxRoundTime),
          !.sinceClose = UpTo(@ + k, longWait + 1),
          !.result = IF @ = None THEN None
                     ELSE [@ EXCEPT !.roundTime = UpTo(@ + k, RoundTimeCap),
                                    !.position.age = UpTo(@ + k, proposeINTERVAL)]]

(* The same without a round in progress, where no clock runs. *)
LaterAccepted(c, k) ==
    [c EXCEPT !.recentPeerPositions = Later(c, k).recentPeerPositions]

(* The heartbeat timer, which fires every tick unless the job is delayed.  *)
(* Without a round in progress only time passes.                           *)
TimerEntry ==
    /\ ~standalone
    /\ UNCHANGED <<left, rounds, standalone>>
    /\ \E k \in Delay :
         \/ cons.phase = "Accepted" /\ cons' = LaterAccepted(cons, k)
         \/ /\ cons.phase # "Accepted"
            /\ \E a \in Answers(cons) : cons' \in timerEntry(Later(cons, k), a)

(* With fewer peers than minPeerCount_ the heartbeat leaves consensus alone. *)
TooFewPeers ==
    /\ ~standalone
    /\ \E k \in Delay :
          cons' = IF cons.phase = "Accepted" THEN LaterAccepted(cons, k) ELSE Later(cons, k)
    /\ UNCHANGED <<left, rounds, standalone>>

PeerProposal(n) ==
    /\ left > 0
    /\ left' = left - 1
    /\ \E q \in Proposals : \E avail \in SUBSET {q.set} :
         LET p == [node |-> n, prev |-> q.prev, seq |-> q.seq, set |-> q.set,
                   closeTime |-> q.closeTime, age |-> 0]
         IN  cons' = peerProposal(cons, p, avail)
    /\ UNCHANGED <<rounds, standalone>>

(* mapComplete: a set arrives that was asked for, as a peer proposed it. *)
GotTxSet(set) ==
    /\ set \in RecentSets(cons)
    /\ cons' = gotTxSet(cons, set)
    /\ UNCHANGED <<left, rounds, standalone>>

(* acceptLedger: a round is started and simulated in one go. *)
AcceptLedger ==
    /\ standalone
    /\ rounds < MaxRounds
    /\ rounds' = rounds + 1
    /\ \E l \in LedgerID, proposing \in BOOLEAN,
          a \in [net : LedgerID, have : {{}}, avail : {{}}] :
         \E d \in startRound(cons, l, l, {}, proposing, a) : cons' \in simulate(d)
    /\ UNCHANGED <<left, standalone>>

(* What happens between two heartbeats. *)
Call ==
    \/ StartRound
    \/ \E n \in NodeID : PeerProposal(n)
    \/ \E set \in TxSet : GotTxSet(set)
    \/ AcceptLedger

Next == TimerEntry \/ TooFewPeers \/ Call

Spec == Init /\ [][Next]_vars

-----------------------------------------------------------------------------

(* Types.  A peer's queue of recent positions (peerProposal) stays bounded. *)
TypeOK ==
    /\ cons \in Engine
    /\ \A n \in NodeID : Len(cons.recentPeerPositions[n]) <= RecentPositions
    /\ left \in 0 .. MaxProposals
    /\ rounds \in 0 .. MaxRounds
    /\ standalone \in BOOLEAN

HasPosition == cons.result # None

(***************************************************************************)
(* The votes on every disputed transaction are what the positions say:     *)
(* ours is whether our set has the transaction, a peer whose set we have   *)
(* votes as its current position does, however sets and positions arrived  *)
(* and were replaced, and a peer that bowed out or whose position was      *)
(* dropped has no vote left (createDisputes, updateDisputes, unVote).      *)
(***************************************************************************)
VotesMatchPositions ==
    HasPosition =>
        \A t \in Disputed(cons.result.disputes) :
            LET d == cons.result.disputes[t]
            IN  /\ d.ourVote = (t \in cons.result.txns)
                /\ \A n \in NodeID \ Peers(cons) : d.votes[n] = None
                /\ \A n \in Peers(cons) :
                     cons.currPeerPositions[n].set \in cons.acquired =>
                         d.votes[n] = (t \in cons.currPeerPositions[n].set)

(***************************************************************************)
(* Every transaction on which our set and the set of a current position    *)
(* differ is in dispute, if we have that set, and we have our own: the     *)
(* sets in compares_ are never compared again although ours changes, so    *)
(* this rests on our set changing in disputed transactions only.           *)
(***************************************************************************)
DisputesComplete ==
    HasPosition =>
        LET ours == cons.result.txns
        IN  /\ ours \in cons.acquired
            /\ \A n \in Peers(cons) :
                 LET theirs == cons.currPeerPositions[n].set
                 IN  theirs \in cons.acquired =>
                        (ours \ theirs) \cup (theirs \ ours)
                            \subseteq Disputed(cons.result.disputes)

(***************************************************************************)
(* While we propose, what the peers last heard from us in this round is    *)
(* our position, its set and close time included, and what they last hear  *)
(* if we stop is that we bow out: nothing follows a bow-out in a round     *)
(* (propose, leaveConsensus, updateOurPositions).                          *)
(***************************************************************************)
PeersKnowOurPosition ==
    /\ cons.mode = "Proposing" /\ HasPosition =>
          cons.sent = Said(cons.result) /\ ~isBowOut(cons.sent)
    /\ cons.mode # "Proposing" /\ cons.sent # None => isBowOut(cons.sent)

(***************************************************************************)
(* The positions that are counted are positions on the ledger we work      *)
(* towards, of peers that have not bowed out of it, also when the network  *)
(* changes its mind in the middle of a round (handleWrongLedger,           *)
(* playbackProposals).                                                     *)
(***************************************************************************)
PositionsForThisLedger ==
    \A n \in Peers(cons) :
        cons.currPeerPositions[n].prev = cons.prevLedgerID /\ n \notin cons.deadNodes

(***************************************************************************)
(* Only in wrongLedger mode is the engine working from another ledger than *)
(* the one it has been told to.  doAccept reports itself in sync, and      *)
(* validates fully, on the mode alone.                                     *)
(***************************************************************************)
RightLedgerUnlessWrong ==
    cons.previousLedger # cons.prevLedgerID => cons.mode = "WrongLedger"

(***************************************************************************)
(* A round that ends has the close time settled and a reason for it: 80%   *)
(* of the positions on our set, ours included if we propose, or votes that *)
(* are all stalled; nobody left to disagree after ledgerMaxConsensus;      *)
(* enough peers that have moved on; or expiry, after a chance at every     *)
(* level of the avalanche and after we bowed out.  No stale position has a *)
(* part in it.  (phaseEstablish, haveConsensus, checkConsensus)            *)
(***************************************************************************)
EndsForAReason ==
    cons.phase = "Accepted" /\ HasPosition /\ ~standalone =>
        LET r      == cons.result
            self   == One(cons.mode = "Proposing")
            peers  == Peers(cons)
            agree  == PeersAt(cons, r.txns)
        IN  /\ cons.haveCloseTimeConsensus
            /\ r.roundTime > ledgerMinConsensus
            /\ \A n \in peers : cons.currPeerPositions[n].age < proposeFRESHNESS
            /\ \/ /\ r.state = "Yes"
                  /\ \/ peers = {} /\ r.roundTime > ledgerMaxConsensus
                     \/ /\ peers # {}
                        /\ (Cardinality(agree) + self) * 100
                              >= minConsensusPct * (Cardinality(peers) + self)
                     \/ /\ peers # {} /\ Disputed(r.disputes) # {}
                        /\ \A t \in Disputed(r.disputes) :
                              stalled(r.disputes[t], self = 1, cons.peerUnchangedCounter)
               \/ r.state = "MovedOn" /\ peers # {}
               \/ /\ r.state = "Expired"
                  /\ cons.mode # "Proposing"
                  /\ cons.establishCounter = 4 * avMinRounds

(***************************************************************************)
(* The comment in RCLConsensus::Adaptor::onAccept: "once a ledger is       *)
(* accepted, the consensus results and capture by reference state will not *)
(* change until startRound is called", whatever heartbeats, proposals and  *)
(* transaction sets still come.                                            *)
(***************************************************************************)
AcceptedIsFrozen ==
    [][cons.phase = "Accepted" /\ cons'.phase = "Accepted" /\ ~standalone =>
         /\ cons'.result = cons.result
         /\ cons'.mode = cons.mode
         /\ cons'.previousLedger = cons.previousLedger]_vars

=============================================================================
