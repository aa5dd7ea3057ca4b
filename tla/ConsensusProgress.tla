-------------------------- MODULE ConsensusProgress --------------------------
(***************************************************************************)
(* Consensus and its heartbeat.  Every run of processHeartbeatTimer arms   *)
(* the timer again (setHeartbeatTimer), but it calls timerEntry only if    *)
(* the overlay has enough peers.  The calls are counted modulo 2, to tell  *)
(* a behaviour in which they never stop from one in which they do.         *)
(***************************************************************************)
EXTENDS Consensus

VARIABLE beat

Heartbeat ==
    \/ TimerEntry /\ beat' = 1 - beat
    \/ TooFewPeers /\ UNCHANGED beat

ProgressSpec ==
    /\ Init /\ beat = 0
    /\ [][Heartbeat \/ (Call /\ UNCHANGED beat)]_<<vars, beat>>

(* timerEntry is called again and again, as it is if the server is not cut *)
(* off from its peers for good.                                            *)
KeepsBeating == []<>(beat = 0) /\ []<>(beat = 1)

(***************************************************************************)
(* A server that is connected again and again, however long it is without  *)
(* enough peers in between, ends every round, whatever sets and close      *)
(* times the trusted peers propose before they fall silent, and whenever   *)
(* they do, if the network does not change its view of the previous        *)
(* ledger: stale positions are dropped, the close time is settled, and     *)
(* alone we have consensus in the end (phaseOpen, phaseEstablish).  Peers  *)
(* that renew positions with different close times for ever may keep a     *)
(* round open.                                                             *)
(***************************************************************************)
RoundEnds == KeepsBeating => (cons.phase # "Accepted" ~> cons.phase = "Accepted")

=============================================================================
