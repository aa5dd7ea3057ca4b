---------------------------- MODULE LedgerMaster ----------------------------
(***************************************************************************)
(* How a server decides which ledger is fully validated, and publishes the *)
(* validated ledgers in order: NetworkOPs::recvValidation,                 *)
(* handleNewValidation, LedgerMaster (checkAccept, consensusBuilt,         *)
(* switchLCL, tryAdvance, doAdvance), RCLConsensus::doAccept where it      *)
(* calls them, and the end of an InboundLedger.                            *)
(* Worker threads run these concurrently; a step is what one thread does   *)
(* between two reads or locks that another thread can come between.        *)
(***************************************************************************)
EXTENDS ValidationQuorum

CONSTANTS
    Trusted, NegativeUNL,   \* the server's UNL, and those of it not counted
    Self,                   \* the validator this server is, or Nobody
    Thread,                 \* worker threads
    Validation,             \* the validations that may arrive, <<validator, ledger>>
    Builds,                 \* the ledgers that our own consensus may build
    Untimely,               \* ledgers whose close time is too far from ours
    maxSeqLead,             \* how far a ledger may be ahead of the validated one
    kMaxLedgerGap,          \* the longest stretch of ledgers published one by one
    ledgerFetchSize,        \* bounds the ledgers one search asks the network for
    Unavailable,            \* ledgers whose acquisition may fail or be swept
    Nobody

ASSUME LedgerMasterAssumption ==
    /\ Trusted \subseteq NodeID /\ NegativeUNL \subseteq NodeID
    /\ Validation \subseteq NodeID \X Ledger /\ Builds \subseteq Ledger
    /\ Untimely \subseteq Ledger /\ Unavailable \subseteq Ledger
    /\ maxSeqLead \in Nat /\ kMaxLedgerGap \in Nat \ {0}
    /\ ledgerFetchSize \in Nat \ {0, 1}
    /\ Nobody \notin NodeID /\ Self \in NodeID \cup {Nobody}

VARIABLES
    vals,                   \* the ledgers each validator's validations are held for
    pending,                \* pendingValidations_: ledgers with one being handled
    have,                   \* the ledgers of LedgerHistory
    wanted, arrived,        \* being acquired; acquired, with the AcqDone job queued
    failed,                 \* acquisitions that failed and are not yet swept
    gone,                   \* history: acquisitions swept, and not asked for since
    building,               \* buildingLedgerSeq_
    validLedger, lastValidLedger,
    pubLedger,              \* the last ledger published; Genesis if there is none
    announced,              \* the last ledger NetworkOPs::pubLedger was given
    advanceWork,            \* advanceWork_
    advance,                \* the AdvanceLedger job; pc "None" is ~advanceThread_
    threw,                  \* history: an exception cut its last pass short
    job                     \* what each worker thread runs

acquiring == <<have, wanted, arrived, failed, gone>>
publishing == <<pubLedger, announced, advanceWork, advance, threw>>
vars == <<vals, pending, acquiring, building, validLedger, lastValidLedger, publishing, job>>

Idle == [pc |-> "Idle", ledger |-> Genesis, then |-> <<>>,
         node |-> Nobody, bypass |-> FALSE, built |-> Genesis]
NoAdvance == [pc |-> "None", ledger |-> Genesis, list |-> <<>>]

Init ==
    /\ vals = [n \in NodeID |-> {}]
    /\ pending = {}
    /\ have = {} /\ wanted = {} /\ arrived = {} /\ failed = {} /\ gone = {}
    /\ building = 0
    /\ validLedger = Genesis /\ lastValidLedger = Genesis
    /\ pubLedger = Genesis /\ announced = Genesis
    /\ advanceWork = FALSE
    /\ advance = NoAdvance
    /\ threw = FALSE
    /\ job = [t \in Thread |-> Idle]

-----------------------------------------------------------------------------
(***************************************************************************)
(* A thread's job: where it is, the ledger it is about, where it goes when *)
(* the function it is in returns, and the validator or the consensus       *)
(* ledger it is for.                                                       *)
(***************************************************************************)
Goto(t, pc) == job' = [job EXCEPT ![t].pc = pc]

Return(t) ==
    LET then == job[t].then
    IN  job' = [job EXCEPT ![t] =
            IF then = <<>> THEN Idle ELSE [@ EXCEPT !.pc = Head(then), !.then = Tail(then)]]

-----------------------------------------------------------------------------
(***************************************************************************)
(* NetworkOPs::recvValidation: only one validation of a ledger at a time   *)
(* goes on to checkAccept, others that arrive meanwhile bypass it.         *)
(***************************************************************************)
RecvValidation(t, n, l) ==
    /\ job[t] = Idle
    /\ pending' = pending \cup {l}
    /\ job' = [job EXCEPT ![t] = [Idle EXCEPT !.pc = "Add", !.ledger = l, !.node = n,
                                  !.bypass = l \in pending, !.then = <<"Leave">>]]
    /\ UNCHANGED <<vals, acquiring, building, validLedger, lastValidLedger, publishing>>

(***************************************************************************)
(* handleNewValidation.  Validations::add refuses a validation that is not *)
(* current or not higher than the last one, and stores one that was signed *)
(* before the validator's current one without reporting it as current.     *)
(***************************************************************************)
HandleNewValidation(t) ==
    LET n == job[t].node
        l == job[t].ledger
    IN  /\ job[t].pc = "Add"
        /\ \E outcome \in {"Refused", "Stored", "Current"} :
              /\ outcome # "Refused" => MayAdd(vals, n, l)
              /\ outcome = "Stored" => vals[n] # {}
              /\ vals' = IF outcome = "Refused" THEN vals ELSE [vals EXCEPT ![n] = @ \cup {l}]
              /\ IF outcome = "Current" /\ n \in Trusted /\ ~job[t].bypass
                 THEN Goto(t, "Check") ELSE Return(t)
        /\ UNCHANGED <<pending, acquiring, building, validLedger, lastValidLedger, publishing>>

(* The end of recvValidation: handleNewValidation has returned, or thrown. *)
LeaveRecvValidation(t) ==
    /\ job[t].pc = "Leave" \/ job[t].then = <<"Leave">>
    /\ pending' = IF job[t].bypass THEN pending ELSE pending \ {job[t].ledger}
    /\ job' = [job EXCEPT ![t] = Idle]
    /\ UNCHANGED <<vals, acquiring, building, validLedger, lastValidLedger, publishing>>

-----------------------------------------------------------------------------
(***************************************************************************)
(* InboundLedgers::acquire for the ledgers L: one that failed is not tried *)
(* again before it has been swept.                                         *)
(***************************************************************************)
acquire(L) ==
    /\ wanted' = wanted \cup (L \ failed)
    /\ gone' = gone \ L
    /\ UNCHANGED failed

(* checkAccept(hash, seq): a ledger that is too old is left alone. *)
CheckAcceptHash(t) ==
    /\ job[t].pc = "Check"
    /\ IF seq(job[t].ledger) < seq(validLedger) THEN Return(t) ELSE Goto(t, "Count")
    /\ UNCHANGED <<vals, pending, acquiring, building, validLedger, lastValidLedger, publishing>>

(* The validations are counted, without the lock of LedgerMaster. *)
CountValidations(t) ==
    /\ job[t].pc = "Count"
    /\ Goto(t, IF HasQuorum(Trusted, NegativeUNL, vals, job[t].ledger) THEN "Note" ELSE "Lookup")
    /\ UNCHANGED <<vals, pending, acquiring, building, validLedger, lastValidLedger, publishing>>

(* The lock is taken for lastValidLedger_ only; another thread may have *)
(* noted a later ledger since the count.                                *)
NoteLastValid(t) ==
    LET l == job[t].ledger
    IN  /\ job[t].pc = "Note"
        /\ lastValidLedger' = IF seq(l) > seq(lastValidLedger) THEN l ELSE lastValidLedger
        /\ Goto(t, "Lookup")
        /\ UNCHANGED <<vals, pending, acquiring, building, validLedger, publishing>>

(* The rest of it: the ledger is looked up, or asked for. *)
LookupLedger(t) ==
    LET l == job[t].ledger
        skip == seq(l) = seq(validLedger) \/ seq(l) = building
    IN  /\ job[t].pc = "Lookup"
        /\ IF ~skip /\ l \in have THEN Goto(t, "CanBeCurrent") ELSE Return(t)
        /\ acquire(IF skip \/ l \in have THEN {} ELSE {l})
        /\ UNCHANGED <<vals, pending, have, arrived, building, validLedger, lastValidLedger,
                       publishing>>

canBeCurrent(l) ==
    /\ seq(l) >= seq(validLedger)
    /\ validLedger # Genesis \/ seq(l) > 10 => l \notin Untimely
    /\ validLedger # Genesis => seq(l) <= seq(validLedger) + maxSeqLead

(* checkAccept(ledger), before it takes the lock. *)
CheckCanBeCurrent(t) ==
    /\ job[t].pc = "CanBeCurrent"
    /\ IF canBeCurrent(job[t].ledger) THEN Goto(t, "Accept") ELSE Return(t)
    /\ UNCHANGED <<vals, pending, acquiring, building, validLedger, lastValidLedger, publishing>>

tryAdvance_DropsWork(valid) ==
    /\ advanceWork' = (advanceWork \/ advance.pc = "None")
    /\ advance' = IF advance.pc = "None" /\ valid # Genesis
                  THEN [advance EXCEPT !.pc = "Start"] ELSE advance

(* tryAdvance, valid being the validated ledger by then. *)
tryAdvance(valid) ==
    /\ advanceWork' = TRUE
    /\ advance' = IF advance.pc = "None" /\ valid # Genesis
                  THEN [advance EXCEPT !.pc = "Start"] ELSE advance

acceptable_Unlocked(l) == HasQuorum(Trusted, NegativeUNL, vals, l)

acceptable(l) ==
    /\ seq(l) > seq(validLedger)
    /\ HasQuorum(Trusted, NegativeUNL, vals, l)

(* checkAccept(ledger), with the lock. *)
AcceptLedger(t) ==
    LET l == job[t].ledger
    IN  /\ job[t].pc = "Accept"
        /\ IF acceptable(l)
           THEN /\ validLedger' = l
                /\ pubLedger' = IF pubLedger = Genesis THEN l ELSE pubLedger
                /\ tryAdvance(l)
           ELSE UNCHANGED <<validLedger, pubLedger, advanceWork, advance>>
        /\ Return(t)
        /\ UNCHANGED <<vals, pending, acquiring, building, lastValidLedger, announced, threw>>

-----------------------------------------------------------------------------
(***************************************************************************)
(* Consensus: from RCLConsensus::onClose to doAccept, a ledger of the      *)
(* sequence building is being built, which no other one of that sequence   *)
(* overtakes.                                                              *)
(***************************************************************************)
OnClose(s) ==
    /\ \A t \in Thread : job[t].built = Genesis
    /\ building' = s
    /\ UNCHANGED <<vals, pending, acquiring, validLedger, lastValidLedger, publishing, job>>

(* doAccept: the ledger is built and stored.  A server that is a validator *)
(* may validate it; its own validation does not go through recvValidation. *)
BuildLedger(t, l) ==
    /\ job[t] = Idle
    /\ building = seq(l)
    /\ \A u \in Thread : job[u].built = Genesis
    /\ have' = have \cup {l}
    /\ \E validates \in {FALSE, Self # Nobody} :
          job' = [job EXCEPT ![t] = [Idle EXCEPT !.built = l, !.ledger = l,
                    !.pc = IF validates THEN "Add" ELSE "Built",
                    !.node = IF validates THEN Self ELSE Nobody,
                    !.then = IF validates THEN <<"Built">> ELSE <<>>]]
    /\ UNCHANGED <<vals, pending, wanted, arrived, failed, gone, building, validLedger,
                   lastValidLedger, publishing>>

(* consensusBuilt begins. *)
ConsensusBuilt(t) ==
    LET l   == job[t].built
        old == seq(l) <= seq(validLedger)
    IN  /\ job[t].pc = "Built"
        /\ building' = 0
        /\ job' = [job EXCEPT ![t] = [Idle EXCEPT !.built = l, !.ledger = l,
                     !.pc = IF old THEN "SwitchLCL" ELSE "CanBeCurrent",
                     !.then = IF old THEN <<>> ELSE <<"Scan", "SwitchLCL">>]]
        /\ UNCHANGED <<vals, pending, acquiring, validLedger, lastValidLedger, publishing>>

(* current_ has one of the validations held of a validator, or none: an  *)
(* older one if it was signed later, none if the last has gone stale.    *)
Current ==
    {current \in [NodeID -> {{l} : l \in Ledger} \cup {{}}] :
        \A n \in NodeID : current[n] \subseteq vals[n]}

(* The ledgers with more current validations than needed, above the valid one. *)
saved(current) ==
    {l \in Ledger : /\ Cardinality(negativeUNLFilter(Trusted, NegativeUNL, current, l))
                          > quorum(Trusted, NegativeUNL)
                    /\ seq(l) > seq(validLedger)}

(* consensusBuilt, after its checkAccept: if the ledger built is not the   *)
(* validated one, perhaps another one can be.                              *)
ScanSaved(t) ==
    /\ job[t].pc = "Scan"
    /\ \E current \in Current :
          IF seq(job[t].built) <= seq(validLedger) \/ saved(current) = {} THEN Return(t)
          ELSE \E l \in saved(current) :
                   /\ \A m \in saved(current) : seq(m) <= seq(l)
                   /\ job' = [job EXCEPT ![t].pc = "Check", ![t].ledger = l]
    /\ UNCHANGED <<vals, pending, acquiring, building, validLedger, lastValidLedger, publishing>>

(* doAccept then makes the ledger built the last closed one. *)
SwitchLCL(t) ==
    /\ job[t].pc = "SwitchLCL"
    /\ job' = [job EXCEPT ![t].pc = "CanBeCurrent", ![t].ledger = job[t].built]
    /\ UNCHANGED <<vals, pending, acquiring, building, validLedger, lastValidLedger, publishing>>

-----------------------------------------------------------------------------
(* InboundLedger::done. *)
Acquired(l) ==
    /\ l \in wanted
    /\ wanted' = wanted \ {l}
    /\ have' = have \cup {l}
    /\ arrived' = arrived \cup {l}
    /\ UNCHANGED <<vals, pending, failed, gone, building, validLedger, lastValidLedger,
                   publishing, job>>

AcquireFailed(l) ==
    /\ l \in wanted \cap Unavailable
    /\ wanted' = wanted \ {l}
    /\ failed' = failed \cup {l}
    /\ UNCHANGED <<vals, pending, have, arrived, gone, building, validLedger, lastValidLedger,
                   publishing, job>>

(* InboundLedgers::sweep drops an acquisition that nobody has asked for    *)
(* lately, finished or not, and nobody is told.                            *)
Sweep(l) ==
    /\ l \in (wanted \cup failed) \cap Unavailable
    /\ wanted' = wanted \ {l}
    /\ failed' = failed \ {l}
    /\ gone' = gone \cup {l}
    /\ UNCHANGED <<vals, pending, have, arrived, building, validLedger, lastValidLedger,
                   publishing, job>>

(* The AcqDone job: checkAccept(ledger), then tryAdvance. *)
AcqDone(t, l) ==
    /\ job[t] = Idle
    /\ l \in arrived
    /\ arrived' = arrived \ {l}
    /\ job' = [job EXCEPT ![t] = [Idle EXCEPT !.pc = "CanBeCurrent", !.ledger = l,
                                  !.then = <<"TryAdvance">>]]
    /\ UNCHANGED <<vals, pending, have, wanted, failed, gone, building, validLedger,
                   lastValidLedger, publishing>>

TryAdvance(t) ==
    /\ job[t].pc = "TryAdvance"
    /\ tryAdvance(validLedger)
    /\ Return(t)
    /\ UNCHANGED <<vals, pending, acquiring, building, validLedger, lastValidLedger, pubLedger,
                   announced, threw>>

-----------------------------------------------------------------------------
(***************************************************************************)
(* The AdvanceLedger job, doAdvance.  It holds the lock except while it    *)
(* looks for ledgers (Find), hands one to the subscribers (Announce) or    *)
(* fetches history (History).                                              *)
(***************************************************************************)
quietAdvance == <<vals, pending, building, validLedger, lastValidLedger, job>>

(* The start of a pass: findNewLedgersToPublish, up to where it unlocks. *)
BeginPass ==
    LET valid == seq(validLedger)
        pub   == seq(pubLedger)
    IN  /\ advance.pc = "Start"
        /\ advanceWork' = FALSE
        /\ threw' = FALSE
        /\ \/ /\ pubLedger = Genesis \/ valid > pub + kMaxLedgerGap
              /\ pubLedger' = IF pubLedger = Genesis THEN pubLedger ELSE validLedger
              /\ advance' = [pc |-> "SetPub", ledger |-> validLedger, list |-> <<validLedger>>]
           \/ /\ pubLedger # Genesis /\ valid <= pub
              /\ \E missing \in BOOLEAN :
                    advance' = IF missing /\ valid = pub
                               THEN [NoAdvance EXCEPT !.pc = "History"] ELSE NoAdvance
              /\ UNCHANGED pubLedger
           \/ /\ pubLedger # Genesis /\ pub < valid /\ valid <= pub + kMaxLedgerGap
              /\ advance' = [NoAdvance EXCEPT !.pc = "Find", !.ledger = validLedger]
              /\ UNCHANGED pubLedger
        /\ UNCHANGED <<quietAdvance, acquiring, announced>>

(* Of the ledgers up to val with the sequences s to end, those that can be *)
(* published now.                                                          *)
ready_SkipsMissing(val, s, end) ==
    SelectSeq(SubSeq(Chain[val], s, end), LAMBDA l : l \in have \cup {val})

ready(val, s, end) ==
    LET last == CHOOSE k \in s - 1 .. end :
                    /\ \A i \in s .. k : Chain[val][i] \in have \cup {val}
                    /\ k = end \/ Chain[val][k + 1] \notin have \cup {val}
    IN  SubSeq(Chain[val], s, last)

(***************************************************************************)
(* The rest of it, without the lock: the first ledgers missing are asked   *)
(* for.  A look at a ledger before the validated one may throw; then those *)
(* after it, from end on, are not looked at in this pass.                  *)
(***************************************************************************)
FindLedgers ==
    LET val      == advance.ledger
        first    == seq(pubLedger) + 1
        absent   == {s \in first .. seq(val) - 1 : Chain[val][s] \notin have}
        asked(e) == {s \in absent : s <= e /\ Cardinality({r \in absent : r <= s}) < ledgerFetchSize}
    IN  /\ advance.pc = "Find"
        /\ \E end \in (first - 1 .. seq(val)) \ {seq(val) - 1} :
              /\ acquire({Chain[val][s] : s \in asked(end)})
              /\ threw' = (end # seq(val))
              /\ LET list == ready(val, first, end)
                 IN  advance' = [advance EXCEPT !.pc = IF list = <<>> THEN "EndPass" ELSE "SetPub",
                                                !.list = list]
        /\ UNCHANGED <<quietAdvance, have, arrived, pubLedger, announced, advanceWork>>

(* setFullLedger and setPubLedger for the next ledger of the list. *)
SetPubLedger ==
    /\ advance.pc = "SetPub"
    /\ pubLedger' = Head(advance.list)
    /\ advance' = [advance EXCEPT !.pc = "Announce"]
    /\ UNCHANGED <<quietAdvance, acquiring, announced, advanceWork, threw>>

more_OffByOne(list) == Len(list) > 2

(* Whether ledgers are left to publish after the head of the list. *)
more(list) == Len(list) > 1

(* NetworkOPs::pubLedger, without the lock.  After the last one, progress  *)
(* depends on whether path finding is under way (newPFWork).               *)
Announce ==
    /\ advance.pc = "Announce"
    /\ announced' = Head(advance.list)
    /\ advance' = [advance EXCEPT !.list = Tail(@),
                                  !.pc = IF more(advance.list) THEN "SetPub" ELSE "EndPass"]
    /\ \E progress \in {FALSE, ~more(advance.list)} : advanceWork' = (advanceWork \/ progress)
    /\ UNCHANGED <<quietAdvance, acquiring, pubLedger, threw>>

(***************************************************************************)
(* fetchForHistory, without the lock, then a second look.  Either older    *)
(* ledgers are asked for, or one was found or cannot be named, which is    *)
(* progress; which ones are missing from the database is left open.        *)
(***************************************************************************)
FetchForHistory ==
    LET older == {Chain[pubLedger][s] : s \in 1 .. seq(pubLedger) - 1} \ have
    IN  /\ advance.pc = "History"
        /\ \E progress \in BOOLEAN, asked \in SUBSET older :
              /\ Cardinality(asked) <= ledgerFetchSize
              /\ progress => asked = {}
              /\ acquire(asked)
              /\ advanceWork' = (advanceWork \/ progress \/ seq(validLedger) # seq(pubLedger))
        /\ advance' = [advance EXCEPT !.pc = "EndPass"]
        /\ UNCHANGED <<quietAdvance, have, arrived, pubLedger, announced, threw>>

EndPass_Always ==
    /\ advance.pc = "EndPass"
    /\ advance' = NoAdvance
    /\ UNCHANGED <<quietAdvance, acquiring, pubLedger, announced, advanceWork, threw>>

(* Another pass if there is work, else the job ends; still with the lock. *)
EndPass ==
    /\ advance.pc = "EndPass"
    /\ advance' = IF advanceWork THEN [NoAdvance EXCEPT !.pc = "Start"] ELSE NoAdvance
    /\ UNCHANGED <<quietAdvance, acquiring, pubLedger, announced, advanceWork, threw>>

(* doAdvance throws, in a call that may: the job ends, whatever work is left. *)
AdvanceThrows ==
    /\ advance.pc \in {"SetPub", "Announce", "History"}
    /\ advance' = NoAdvance
    /\ threw' = TRUE
    /\ UNCHANGED <<quietAdvance, acquiring, pubLedger, announced, advanceWork>>

-----------------------------------------------------------------------------

(* What a thread that runs a job does next. *)
Step(t) ==
    \/ HandleNewValidation(t) \/ LeaveRecvValidation(t)
    \/ CheckAcceptHash(t) \/ CountValidations(t) \/ NoteLastValid(t) \/ LookupLedger(t)
    \/ CheckCanBeCurrent(t) \/ AcceptLedger(t)
    \/ ConsensusBuilt(t) \/ ScanSaved(t) \/ SwitchLCL(t) \/ TryAdvance(t)

Advance ==
    \/ BeginPass \/ FindLedgers \/ SetPubLedger \/ Announce \/ FetchForHistory \/ EndPass
    \/ AdvanceThrows

Next ==
    \/ \E t \in Thread, v \in Validation : RecvValidation(t, v[1], v[2])
    \/ \E t \in Thread, l \in Builds : BuildLedger(t, l)
    \/ \E t \in Thread, l \in Ledger : AcqDone(t, l)
    \/ \E t \in Thread : Step(t)
    \/ \E l \in Builds : OnClose(seq(l))
    \/ \E l \in Ledger : Acquired(l) \/ AcquireFailed(l) \/ Sweep(l)
    \/ Advance

Spec == Init /\ [][Next]_vars

(***************************************************************************)
(* Jobs that run go on.  An acquisition ends, well or not: it is retried a *)
(* bounded number of times (InboundLedger::onTimer).  A queued AcqDone job *)
(* gets a thread although validations keep the threads busy.               *)
(***************************************************************************)
FairSpec ==
    /\ Spec
    /\ WF_vars(Advance)
    /\ \A t \in Thread : WF_vars(Step(t))
    /\ \A l \in Ledger :
          /\ WF_vars(Acquired(l) \/ AcquireFailed(l) \/ Sweep(l))
          /\ SF_vars(\E t \in Thread : AcqDone(t, l))

-----------------------------------------------------------------------------

Job ==
    [pc : {"Idle", "Add", "Leave", "Check", "Count", "Note", "Lookup", "CanBeCurrent", "Accept",
           "Built", "Scan", "SwitchLCL", "TryAdvance"},
     ledger : Ledger \cup {Genesis}, built : Ledger \cup {Genesis},
     node : NodeID \cup {Nobody}, bypass : BOOLEAN,
     then : {<<>>, <<"Leave">>, <<"TryAdvance">>, <<"Built">>, <<"SwitchLCL">>,
             <<"Scan", "SwitchLCL">>}]

(* Types.  The AdvanceLedger job has ledgers left to publish only while it *)
(* publishes them (doAdvance).                                             *)
TypeOK ==
    /\ vals \in [NodeID -> SUBSET Ledger]
    /\ {pending, have, wanted, arrived, failed, gone} \subseteq SUBSET Ledger
    /\ building \in Nat
    /\ {validLedger, lastValidLedger, pubLedger, announced} \subseteq Ledger \cup {Genesis}
    /\ advanceWork \in BOOLEAN /\ threw \in BOOLEAN
    /\ advance.pc \in {"None", "Start", "Find", "SetPub", "Announce", "History", "EndPass"}
    /\ advance.ledger \in Ledger \cup {Genesis}
    /\ advance.list = <<>> \/ advance.pc \in {"SetPub", "Announce"}
    /\ job \in [Thread -> Job]

(***************************************************************************)
(* However validations, built and acquired ledgers reach checkAccept, and  *)
(* whatever other threads do between the counts, canBeCurrent and the      *)
(* locks, validLedger_ and lastValidLedger_ move as ValidatedLedger says:  *)
(* each to a ledger that has a quorum, and upward.                         *)
(***************************************************************************)
Promise == INSTANCE ValidatedLedger

KeepsPromise == Promise!Spec

(***************************************************************************)
(* A ledger is handed to the subscribers only as the published one, each   *)
(* at most once and in order, and the published ledger leaves none out but *)
(* for a jump over more than kMaxLedgerGap of them, whatever is missing    *)
(* and whatever throws (findNewLedgersToPublish, doAdvance).               *)
(***************************************************************************)
PublishedInOrder ==
    [][/\ announced' # announced => announced' = pubLedger /\ seq(announced') > seq(announced)
       /\ pubLedger' # pubLedger /\ pubLedger # Genesis =>
             \/ seq(pubLedger') = seq(pubLedger) + 1
             \/ seq(pubLedger') > seq(pubLedger) + kMaxLedgerGap]_vars

(* The job has ended with ledgers to publish. *)
Behind == advance.pc = "None" /\ seq(validLedger) > seq(pubLedger)

nextToPublish == Chain[validLedger][seq(pubLedger) + 1]

(* Nothing the server does by itself will publish the next ledger: its     *)
(* acquisition failed or was swept, or an exception cut the pass short.    *)
Lapsed == Behind /\ (threw \/ nextToPublish \in failed \cup gone)

(***************************************************************************)
(* No wake-up of the AdvanceLedger job is lost, at whatever point of a     *)
(* pass tryAdvance comes: when the job has ended and the validated ledger  *)
(* is ahead of the published one, the next ledger to publish is being      *)
(* acquired, which ends in tryAdvance, or a failure has made the stream of *)
(* published ledgers lapse until the next wake-up.                         *)
(***************************************************************************)
NextIsComing ==
    Behind =>
        \/ nextToPublish \in wanted \cup arrived
        \/ \E t \in Thread : job[t].pc = "TryAdvance" \/ job[t].then = <<"TryAdvance">>
        \/ Lapsed

(***************************************************************************)
(* Every fully validated ledger, or a later one, is published in the end,  *)
(* however many ledgers before it are missing and in whatever order they   *)
(* come, unless the stream has lapsed for good.                            *)
(***************************************************************************)
EventuallyPublished ==
    \A l \in Ledger : validLedger = l ~> (seq(pubLedger) >= seq(l) \/ []Lapsed)

=============================================================================
