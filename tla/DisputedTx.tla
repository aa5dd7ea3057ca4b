----------------------------- MODULE DisputedTx -----------------------------
(***************************************************************************)
(* The life of one disputed transaction in a round: peers vote, change     *)
(* their votes, bow out or go stale, and the timer reconsiders our own     *)
(* vote against a threshold that rises with time.                          *)
(***************************************************************************)
EXTENDS ConsensusRules

CONSTANTS MaxChanges    \* how often the peers' votes may change in a behaviour

ASSUME MaxChangesAssumption == MaxChanges \in Nat

VARIABLES
    dispute,            \* the DisputedTx object
    proposing,          \* whether we propose in this round
    peerUnchanged,      \* Consensus' peerUnchangedCounter_
    percent,            \* convergePercent_ at the last update
    fresh,              \* the votes are those of the last update
    changes             \* votes the peers have changed so far

vars == <<dispute, proposing, peerUnchanged, percent, fresh, changes>>

-----------------------------------------------------------------------------

Init ==
    /\ \E v \in BOOLEAN : dispute = newDispute(v)
    /\ proposing \in BOOLEAN
    /\ peerUnchanged = 0
    /\ percent = 0
    /\ fresh = FALSE
    /\ changes = 0

(* updateDisputes: a peer's vote is set, from the set of its position; one *)
(* that is new or changed restarts the count of quiet rounds.              *)
SetVote(n, v) ==
    LET new == dispute.votes[n] # v
    IN  /\ changes + One(new) <= MaxChanges
        /\ dispute' = setVote(dispute, n, v)
        /\ peerUnchanged' = IF new THEN 0 ELSE peerUnchanged
        /\ changes' = changes + One(new)
        /\ fresh' = (fresh /\ ~new)
        /\ UNCHANGED <<proposing, percent>>

(* The peer bowed out, or its position is stale. *)
UnVote(n) ==
    /\ dispute.votes[n] # None
    /\ dispute' = unVote(dispute, n)
    /\ fresh' = FALSE
    /\ UNCHANGED <<proposing, peerUnchanged, percent, changes>>

(* phaseEstablish: another round, in which our vote is reconsidered. *)
UpdateVote(pct) ==
    /\ pct >= percent
    /\ percent' = pct
    /\ peerUnchanged' = UpTo(peerUnchanged + 1, avStalledRounds)
    /\ dispute' = updateVote(dispute, pct, proposing)
    /\ fresh' = TRUE
    /\ UNCHANGED <<proposing, changes>>

(* leaveConsensus: we stop proposing. *)
LeaveConsensus ==
    /\ proposing
    /\ proposing' = FALSE
    /\ fresh' = FALSE
    /\ UNCHANGED <<dispute, peerUnchanged, percent, changes>>

(* The cutoffs of the avalanche are all that tells two percentages apart. *)
Percent == {avalancheCutoffs[s].consensusTime : s \in AvalancheState}

Next ==
    \/ \E n \in NodeID, v \in BOOLEAN : SetVote(n, v)
    \/ \E n \in NodeID : UnVote(n)
    \/ \E pct \in Percent : UpdateVote(pct)
    \/ LeaveConsensus

Spec == Init /\ [][Next]_vars

(* The timer keeps firing, and time keeps passing. *)
FairSpec == Spec /\ WF_vars(UpdateVote(200))

-----------------------------------------------------------------------------

(* Types.  The tallies yays_ and nays_ never fall below zero. *)
TypeOK ==
    /\ dispute \in Dispute
    /\ proposing \in BOOLEAN
    /\ peerUnchanged \in 0 .. avStalledRounds
    /\ percent \in Percent
    /\ fresh \in BOOLEAN
    /\ changes \in 0 .. MaxChanges

(***************************************************************************)
(* The tallies the thresholds are computed from always count the votes     *)
(* that are recorded: no sequence of new, changed, repeated and withdrawn  *)
(* votes (setVote, unVote) lets yays_ or nays_ drift from votes_.          *)
(***************************************************************************)
CountsMatchVotes ==
    /\ dispute.yays = Cardinality({n \in NodeID : dispute.votes[n] = TRUE})
    /\ dispute.nays = Cardinality({n \in NodeID : dispute.votes[n] = FALSE})

(***************************************************************************)
(* A vote that is reported as stalled right after it was reconsidered, as  *)
(* haveConsensus does, is final: however often it is reconsidered, and     *)
(* however much time passes, it does not change while the peers' votes     *)
(* stay as they are.  A round may end on a stalled vote for that reason.   *)
(***************************************************************************)
StalledIsFinal ==
    fresh /\ stalled(dispute, proposing, peerUnchanged) =>
        \A pct \in Percent :
            updateVote(dispute, pct, proposing).ourVote = dispute.ourVote

(***************************************************************************)
(* Once the peers no longer change their votes, ours settles: giving       *)
(* ourselves full weight, the rising threshold does not make updateVote    *)
(* change its mind for ever.                                               *)
(***************************************************************************)
VoteSettles == <>[](dispute.ourVote) \/ <>[](~dispute.ourVote)

=============================================================================
