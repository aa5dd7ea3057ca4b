------------------------- MODULE LedgerMasterProofs -------------------------
(***************************************************************************)
(* LedgerMaster implements ValidatedLedger: however many worker threads    *)
(* handle validations, built and acquired ledgers, the last fully          *)
(* validated ledger and the last one known to be valid move upward and     *)
(* only with a quorum.                                                     *)
(***************************************************************************)
EXTENDS LedgerMaster, SequenceTheorems, FiniteSetTheorems, TLAPS

USE ZenonT(3), SMTT(15), ZenonT(30), SMTT(30)

Then ==
    {<<>>, <<"Leave">>, <<"TryAdvance">>, <<"Built">>, <<"SwitchLCL">>, <<"Scan", "SwitchLCL">>}

(* What the steps rely on: a job knows its ledger, and the job of a        *)
(* validation or of a ledger built knows that.                             *)
JobOK(j) ==
    /\ j.pc # "Idle" => j.ledger \in Ledger
    /\ j.pc = "Add" => j.node \in NodeID
    /\ j.pc \in {"Built", "Scan", "SwitchLCL"} => j.built \in Ledger
    /\ j.then \in {<<"Built">>, <<"SwitchLCL">>, <<"Scan", "SwitchLCL">>} => j.built \in Ledger

Jobs == job \in [Thread -> Job] /\ \A t \in Thread : JobOK(job[t])

(* A thread that has counted a quorum and waits for the lock is right      *)
(* about it, since validations are never taken back.                       *)
Counted ==
    /\ vals \in [NodeID -> SUBSET Ledger]
    /\ \A t \in Thread : job[t].pc = "Note" =>
            HasQuorum(Trusted, NegativeUNL, vals, job[t].ledger)

(* The inductive invariant. *)
Inv == Jobs /\ Counted

(* Thread t alone does something, and does not come to wait for that lock. *)
OnlyJob(t) == job'[t].pc # "Note" /\ \A u \in Thread \ {t} : job'[u] = job[u]

(* A thread without a job satisfies it. *)
LEMMA IdleOK == Idle \in Job /\ JobOK(Idle)
BY DEF Idle, Job, JobOK

(* One thread's job changes, to one that satisfies the invariant. *)
LEMMA OneJob ==
    ASSUME Jobs, NEW t \in Thread, NEW j \in Job, JobOK(j), job' = [job EXCEPT ![t] = j]
    PROVE  Jobs' /\ (j.pc # "Note" => OnlyJob(t))
BY DEF Jobs, OnlyJob

(* A job that goes on within a function keeps its ledger. *)
LEMMA GotoInv ==
    ASSUME Jobs, NEW t \in Thread, job[t].pc # "Idle",
           NEW pc \in {"Check", "Count", "Note", "Lookup", "CanBeCurrent", "Accept"}, Goto(t, pc)
    PROVE  Jobs' /\ (pc # "Note" => OnlyJob(t))
<1> DEFINE j == [job[t] EXCEPT !.pc = pc]
<1>1. job[t] \in Job /\ JobOK(job[t])
    BY DEF Jobs
<1>2. j \in Job /\ j.pc = pc
    BY <1>1 DEF Job
<1>3. JobOK(j)
    BY <1>1 DEF Job, JobOK
<1>4. job' = [job EXCEPT ![t] = j]
    BY DEF Goto, Jobs
<1> QED  BY <1>2, <1>3, <1>4, OneJob

(* The continuations a job can have, taken apart. *)
LEMMA Continuations ==
    /\ Head(<<"Leave">>) = "Leave" /\ Tail(<<"Leave">>) = <<>>
    /\ Head(<<"TryAdvance">>) = "TryAdvance" /\ Tail(<<"TryAdvance">>) = <<>>
    /\ Head(<<"Built">>) = "Built" /\ Tail(<<"Built">>) = <<>>
    /\ Head(<<"SwitchLCL">>) = "SwitchLCL" /\ Tail(<<"SwitchLCL">>) = <<>>
    /\ Head(<<"Scan", "SwitchLCL">>) = "Scan"
    /\ Tail(<<"Scan", "SwitchLCL">>) = <<"SwitchLCL">>
OBVIOUS

(* A job that returns goes where it was to go, or ends. *)
LEMMA ReturnInv ==
    ASSUME Jobs, NEW t \in Thread, job[t].pc # "Idle", Return(t)
    PROVE  Jobs' /\ OnlyJob(t)
<1> DEFINE then == job[t].then
           j == [job[t] EXCEPT !.pc = Head(then), !.then = Tail(then)]
<1>1. job[t] \in Job /\ JobOK(job[t]) /\ then \in Then
    BY DEF Jobs, Job, Then
<1>2. CASE then = <<>>
    <2>1. job' = [job EXCEPT ![t] = Idle]
        BY <1>2 DEF Return
    <2> QED  BY <2>1, IdleOK, OneJob DEF Idle
<1>3. CASE then # <<>>
    <2>1. /\ Head(then) \in {"Leave", "TryAdvance", "Built", "SwitchLCL", "Scan"}
          /\ Tail(then) \in {<<>>, <<"SwitchLCL">>}
          /\ Head(then) \in {"Built", "SwitchLCL", "Scan"} \/ Tail(then) = <<"SwitchLCL">> =>
                job[t].built \in Ledger
        <3> HIDE DEF then
        <3>1. CASE then = <<"Leave">>
            BY <3>1, Continuations
        <3>2. CASE then = <<"TryAdvance">>
            BY <3>2, Continuations
        <3>3. CASE then = <<"SwitchLCL">>
            BY <3>3, <1>1, Continuations DEF JobOK, then
        <3>4. CASE then = <<"Scan", "SwitchLCL">>
            BY <3>4, <1>1, Continuations DEF JobOK, then
        <3>5. CASE then = <<"Built">>
            BY <3>5, <1>1, Continuations DEF JobOK, then
        <3> QED  BY <1>1, <1>3, <3>1, <3>2, <3>3, <3>4, <3>5 DEF Then
    <2>2. job' = [job EXCEPT ![t] = j]
        BY <1>3 DEF Return
    <2>3. j \in Job /\ j.pc # "Note"
        <3> HIDE DEF then
        <3> QED  BY <1>1, <2>1 DEF Job
    <2>4. JobOK(j)
        <3> HIDE DEF then
        <3> QED  BY <1>1, <2>1 DEF JobOK, Job
    <2> QED  BY <2>2, <2>3, <2>4, OneJob
<1> QED  BY <1>2, <1>3

(* A job that starts is given its ledger, and its validator if it has one. *)
LEMMA StartInv ==
    ASSUME Jobs, NEW t \in Thread
    PROVE  /\ \A v \in Validation : RecvValidation(t, v[1], v[2]) => Jobs' /\ OnlyJob(t)
           /\ \A l \in Ledger : BuildLedger(t, l) => Jobs' /\ OnlyJob(t)
           /\ \A l \in Ledger : AcqDone(t, l) => Jobs' /\ OnlyJob(t)
<1>1. ASSUME NEW v \in Validation, RecvValidation(t, v[1], v[2])
      PROVE  Jobs' /\ OnlyJob(t)
    <2> DEFINE j == [Idle EXCEPT !.pc = "Add", !.ledger = v[2], !.node = v[1],
                                 !.bypass = v[2] \in pending, !.then = <<"Leave">>]
    <2>1. v[1] \in NodeID /\ v[2] \in Ledger
        BY LedgerMasterAssumption
    <2>2. (v[2] \in pending) \in BOOLEAN
        OBVIOUS
    <2>3. j \in Job /\ j.pc # "Note"
        BY <2>1, <2>2, IdleOK DEF Job, Idle
    <2>4. JobOK(j)
        BY <2>1 DEF JobOK, Idle
    <2>5. job' = [job EXCEPT ![t] = j]
        BY <1>1 DEF RecvValidation
    <2> QED  BY <2>3, <2>4, <2>5, OneJob
<1>2. ASSUME NEW l \in Ledger, BuildLedger(t, l)
      PROVE  Jobs' /\ OnlyJob(t)
    <2>1. PICK validates \in {FALSE, Self # Nobody} :
             job' = [job EXCEPT ![t] = [Idle EXCEPT !.built = l, !.ledger = l,
                       !.pc = IF validates THEN "Add" ELSE "Built",
                       !.node = IF validates THEN Self ELSE Nobody,
                       !.then = IF validates THEN <<"Built">> ELSE <<>>]]
        BY <1>2 DEF BuildLedger
    <2>2. CASE validates
        <3> DEFINE j == [Idle EXCEPT !.built = l, !.ledger = l, !.pc = "Add", !.node = Self,
                                     !.then = <<"Built">>]
        <3>1. Self \in NodeID
            BY <2>2, LedgerMasterAssumption
        <3>2. j \in Job /\ j.pc # "Note"
            BY <3>1, IdleOK DEF Job, Idle
        <3>3. JobOK(j)
            BY <3>1 DEF JobOK, Idle
        <3>4. job' = [job EXCEPT ![t] = j]
            BY <2>1, <2>2
        <3> QED  BY <3>2, <3>3, <3>4, OneJob
    <2>3. CASE ~validates
        <3> DEFINE j == [Idle EXCEPT !.built = l, !.ledger = l, !.pc = "Built", !.node = Nobody,
                                     !.then = <<>>]
        <3>1. j \in Job /\ j.pc # "Note"
            BY IdleOK DEF Job, Idle
        <3>2. JobOK(j)
            BY DEF JobOK, Idle
        <3>3. job' = [job EXCEPT ![t] = j]
            BY <2>1, <2>3
        <3> QED  BY <3>1, <3>2, <3>3, OneJob
    <2> QED  BY <2>2, <2>3
<1>3. ASSUME NEW l \in Ledger, AcqDone(t, l)
      PROVE  Jobs' /\ OnlyJob(t)
    <2> DEFINE j == [Idle EXCEPT !.pc = "CanBeCurrent", !.ledger = l, !.then = <<"TryAdvance">>]
    <2>1. j \in Job /\ j.pc # "Note"
        BY IdleOK DEF Job, Idle
    <2>2. JobOK(j)
        BY DEF JobOK, Idle
    <2>3. job' = [job EXCEPT ![t] = j]
        BY <1>3 DEF AcqDone
    <2> QED  BY <2>1, <2>2, <2>3, OneJob
<1> QED  BY <1>1, <1>2, <1>3

(* The steps of consensusBuilt and switchLCL, which choose a ledger. *)
LEMMA ScanInv ==
    ASSUME Jobs, NEW t \in Thread, ConsensusBuilt(t) \/ ScanSaved(t) \/ SwitchLCL(t)
    PROVE  Jobs' /\ OnlyJob(t)
<1>1. job[t] \in Job /\ JobOK(job[t])
    BY DEF Jobs
<1>2. ASSUME NEW l \in Ledger, NEW pc \in {"Check", "CanBeCurrent"},
             job' = [job EXCEPT ![t].pc = pc, ![t].ledger = l]
      PROVE  Jobs' /\ OnlyJob(t)
    <2> DEFINE j == [job[t] EXCEPT !.pc = pc, !.ledger = l]
    <2>1. j \in Job /\ j.pc # "Note"
        BY <1>1 DEF Job
    <2>2. JobOK(j)
        BY <1>1 DEF JobOK, Job
    <2>3. job' = [job EXCEPT ![t] = j]
        BY <1>2, <1>1 DEF Jobs
    <2> QED  BY <2>1, <2>2, <2>3, OneJob
<1>3. CASE SwitchLCL(t)
    <2>1. job[t].built \in Ledger
        BY <1>1, <1>3 DEF SwitchLCL, JobOK
    <2>2. job' = [job EXCEPT ![t].pc = "CanBeCurrent", ![t].ledger = job[t].built]
        BY <1>3 DEF SwitchLCL
    <2> QED  BY <2>1, <2>2, <1>2
<1>4. CASE ScanSaved(t)
    <2>1. CASE Return(t)
        BY <2>1, <1>4, ReturnInv DEF ScanSaved
    <2>2. CASE ~Return(t)
        <3>1. PICK l \in Ledger : job' = [job EXCEPT ![t].pc = "Check", ![t].ledger = l]
            BY <2>2, <1>4 DEF ScanSaved, saved
        <3> QED  BY <3>1, <1>2
    <2> QED  BY <2>1, <2>2
<1>5. CASE ConsensusBuilt(t)
    <2> DEFINE l == job[t].built
               old == seq(l) <= seq(validLedger)
               j == [Idle EXCEPT !.built = l, !.ledger = l,
                       !.pc = IF old THEN "SwitchLCL" ELSE "CanBeCurrent",
                       !.then = IF old THEN <<>> ELSE <<"Scan", "SwitchLCL">>]
    <2>1. l \in Ledger
        BY <1>1, <1>5 DEF ConsensusBuilt, JobOK
    <2>2. job' = [job EXCEPT ![t] = j]
        BY <1>5 DEF ConsensusBuilt
    <2> HIDE DEF l, old
    <2>3. j \in Job /\ j.pc # "Note"
        BY <2>1, IdleOK DEF Job, Idle
    <2>4. JobOK(j)
        BY <2>1 DEF JobOK, Idle
    <2> QED  BY <2>2, <2>3, <2>4, OneJob
<1> QED  BY <1>3, <1>4, <1>5

(* Every step of a thread. *)
LEMMA StepInv ==
    ASSUME Jobs, NEW t \in Thread, Step(t)
    PROVE  Jobs' /\ (OnlyJob(t) \/ CountValidations(t))
<1>1. CASE ConsensusBuilt(t) \/ ScanSaved(t) \/ SwitchLCL(t)
    BY <1>1, ScanInv
<1>2. CASE LeaveRecvValidation(t)
    <2>1. job' = [job EXCEPT ![t] = Idle]
        BY <1>2 DEF LeaveRecvValidation
    <2> QED  BY <2>1, IdleOK, OneJob DEF Idle
<1>3. CASE CountValidations(t)
    <2>1. PICK pc \in {"Note", "Lookup"} : Goto(t, pc)
        BY <1>3 DEF CountValidations
    <2> QED  BY <2>1, <1>3, GotoInv DEF CountValidations
<1>4. ASSUME ~(ConsensusBuilt(t) \/ ScanSaved(t) \/ SwitchLCL(t)),
             ~LeaveRecvValidation(t), ~CountValidations(t)
      PROVE  /\ job[t].pc # "Idle"
             /\ \/ Return(t)
                \/ \E pc \in {"Check", "Count", "Lookup", "CanBeCurrent", "Accept"} : Goto(t, pc)
    BY <1>4 DEF Step, HandleNewValidation, CheckAcceptHash, NoteLastValid, LookupLedger,
                CheckCanBeCurrent, AcceptLedger, TryAdvance
<1> QED  BY <1>1, <1>2, <1>3, <1>4, ReturnInv, GotoInv

(* Every step: at most one thread does something. *)
LEMMA JobsInv ==
    ASSUME Jobs, Next
    PROVE  /\ Jobs'
           /\ UNCHANGED job \/ \E t \in Thread : OnlyJob(t) \/ CountValidations(t)
<1>1. CASE UNCHANGED job
    BY <1>1 DEF Jobs
<1>2. CASE job' # job
    <2>1. \/ \E t \in Thread, v \in Validation : RecvValidation(t, v[1], v[2])
          \/ \E t \in Thread, l \in Ledger : BuildLedger(t, l) \/ AcqDone(t, l)
          \/ \E t \in Thread : Step(t)
        BY <1>2, LedgerMasterAssumption
           DEF Next, OnClose, Acquired, AcquireFailed, Sweep, Advance, BeginPass, FindLedgers,
               SetPubLedger, Announce, FetchForHistory, EndPass, AdvanceThrows, quietAdvance
    <2> QED  BY <2>1, StartInv, StepInv
<1> QED  BY <1>1, <1>2

(* ValidatedLedger speaks of the same sequence numbers, additions and quorums. *)
LEMMA SameNotions ==
    /\ Promise!Genesis = Genesis
    /\ \A l : Promise!seq(l) = seq(l)
    /\ \A v, n, l : Promise!MayAdd(v, n, l) = MayAdd(v, n, l)
    /\ \A u, x, v, l : Promise!HasQuorum(u, x, v, l) = HasQuorum(u, x, v, l)
<1>1. Promise!Genesis = Genesis /\ \A l : Promise!seq(l) = seq(l)
    BY DEF Genesis, Promise!Genesis, seq, Promise!seq
<1>2. ASSUME NEW v, NEW n, NEW l
      PROVE  Promise!MayAdd(v, n, l) = MayAdd(v, n, l)
    BY <1>1, Zenon DEF MayAdd, Promise!MayAdd
<1>3. \A u, e : Promise!calculateQuorum(u, e) = calculateQuorum(u, e)
    BY DEF calculateQuorum, Promise!calculateQuorum, MaxOf, Promise!MaxOf
<1>4. ASSUME NEW u, NEW x, NEW v, NEW l
      PROVE  Promise!HasQuorum(u, x, v, l) = HasQuorum(u, x, v, l)
    <2>1. Promise!negativeUNLFilter(u, x, v, l) = negativeUNLFilter(u, x, v, l)
        BY Zenon DEF negativeUNLFilter, Promise!negativeUNLFilter
    <2>2. \A S : Promise!Cardinality(S) = Cardinality(S)
        BY Zenon DEF Cardinality, Promise!Cardinality
    <2>3. Promise!quorum(u, x) = quorum(u, x)
        BY <1>3, <2>2, Zenon DEF quorum, Promise!quorum
    <2> QED  BY <2>1, <2>2, <2>3, Zenon DEF HasQuorum, Promise!HasQuorum
<1> QED  BY <1>1, <1>2, <1>4, Zenon

(* What ValidatedLedger speaks of. *)
promised == <<vals, validLedger, lastValidLedger>>

(* The steps that change it are the three that ValidatedLedger describes. *)
LEMMA StepSimulation ==
    ASSUME Inv, Next
    PROVE  Promise!Next \/ UNCHANGED promised
<1>1. CASE \E t \in Thread : HandleNewValidation(t)
    <2>1. PICK t \in Thread : HandleNewValidation(t)
        BY <1>1
    <2>2. job[t].node \in NodeID /\ job[t].ledger \in Ledger
        BY <2>1 DEF HandleNewValidation, Inv, Jobs, JobOK
    <2>3. \/ Promise!Validate(job[t].node, job[t].ledger)
          \/ UNCHANGED promised
        BY <2>1, SameNotions DEF HandleNewValidation, Promise!Validate, promised
    <2> QED  BY <2>2, <2>3 DEF Promise!Next
<1>2. CASE \E t \in Thread : AcceptLedger(t)
    <2>1. PICK t \in Thread : AcceptLedger(t)
        BY <1>2
    <2>2. job[t].ledger \in Ledger
        BY <2>1 DEF AcceptLedger, Inv, Jobs, JobOK
    <2>3. Promise!Accept(job[t].ledger) \/ UNCHANGED promised
        BY <2>1, SameNotions DEF AcceptLedger, acceptable, Promise!Accept, promised
    <2> QED  BY <2>2, <2>3 DEF Promise!Next
<1>3. CASE \E t \in Thread : NoteLastValid(t)
    <2>1. PICK t \in Thread : NoteLastValid(t)
        BY <1>3
    <2>2. job[t].ledger \in Ledger /\ HasQuorum(Trusted, NegativeUNL, vals, job[t].ledger)
        BY <2>1 DEF NoteLastValid, Inv, Jobs, JobOK, Counted
    <2>3. Promise!Note(job[t].ledger) \/ UNCHANGED promised
        BY <2>1, <2>2, SameNotions DEF NoteLastValid, Promise!Note, promised
    <2> QED  BY <2>2, <2>3 DEF Promise!Next
<1>4. CASE ~\E t \in Thread : HandleNewValidation(t) \/ AcceptLedger(t) \/ NoteLastValid(t)
    <2>1. CASE \E t \in Thread : Step(t)
        BY <1>4, <2>1
           DEF Step, LeaveRecvValidation, CheckAcceptHash, CountValidations, LookupLedger,
               CheckCanBeCurrent, ConsensusBuilt, ScanSaved, SwitchLCL, TryAdvance, promised
    <2>2. CASE Advance
        BY <2>2 DEF Advance, BeginPass, FindLedgers, SetPubLedger, Announce, FetchForHistory,
                    EndPass, AdvanceThrows, quietAdvance, promised
    <2>3. CASE ~((\E t \in Thread : Step(t)) \/ Advance)
        BY <2>3 DEF Next, RecvValidation, BuildLedger, AcqDone, OnClose, Acquired,
                    AcquireFailed, Sweep, promised
    <2> QED  BY <2>1, <2>2, <2>3
<1> QED  BY <1>1, <1>2, <1>3, <1>4

(* A quorum stays one when validations are added. *)
LEMMA QuorumStays ==
    ASSUME NEW v \in [NodeID -> SUBSET Ledger], NEW w \in [NodeID -> SUBSET Ledger], NEW l,
           \A n \in NodeID : v[n] \subseteq w[n],
           HasQuorum(Trusted, NegativeUNL, v, l)
    PROVE  HasQuorum(Trusted, NegativeUNL, w, l)
<1> DEFINE V == negativeUNLFilter(Trusted, NegativeUNL, v, l)
           W == negativeUNLFilter(Trusted, NegativeUNL, w, l)
<1>1. V \subseteq W /\ W \subseteq NodeID /\ Trusted \subseteq NodeID
    BY LedgerMasterAssumption DEF negativeUNLFilter
<1>2. IsFiniteSet(W)
    BY <1>1, QuorumAssumption, FS_Subset
<1>3. Cardinality(V) \in Nat /\ Cardinality(W) \in Nat /\ Cardinality(V) <= Cardinality(W)
    BY <1>1, <1>2, FS_Subset, FS_CardinalityType
<1>4. quorum(Trusted, NegativeUNL) \in Int
    <2>1. IsFiniteSet(Trusted) /\ IsFiniteSet(Trusted \ NegativeUNL)
        BY <1>1, QuorumAssumption, FS_Subset
    <2>2. Cardinality(Trusted) \in Nat /\ Cardinality(Trusted \ NegativeUNL) \in Nat
        BY <2>1, FS_CardinalityType
    <2> QED  BY <2>2, QuorumAssumption DEF quorum, calculateQuorum, MaxOf
<1>5. Cardinality(V) >= quorum(Trusted, NegativeUNL)
    BY DEF HasQuorum
<1>6. Cardinality(W) >= quorum(Trusted, NegativeUNL)
    <2> HIDE DEF V, W
    <2> QED  BY <1>3, <1>4, <1>5
<1> QED  BY <1>6 DEF HasQuorum

(* What a thread counted before it waits for the lock still holds. *)
LEMMA CountedInv ==
    ASSUME Inv, Next
    PROVE  Counted'
<1>1. /\ vals' \in [NodeID -> SUBSET Ledger]
      /\ \A n \in NodeID : vals[n] \subseteq vals'[n]
    <2>1. CASE vals' = vals
        BY <2>1 DEF Inv, Counted
    <2>2. CASE vals' # vals
        <3>1. PICK n \in NodeID, l \in Ledger : vals' = [vals EXCEPT ![n] = @ \cup {l}]
            BY <2>2, StepSimulation
               DEF Promise!Next, Promise!Validate, Promise!Note, Promise!Accept, promised
        <3> QED  BY <3>1 DEF Inv, Counted
    <2> QED  BY <2>1, <2>2
<1>2. ASSUME NEW u \in Thread, job'[u].pc = "Note"
      PROVE  HasQuorum(Trusted, NegativeUNL, vals', job'[u].ledger)
    <2>1. CASE job'[u] = job[u]
        BY <2>1, <1>1, <1>2, QuorumStays DEF Inv, Counted
    <2>2. CASE job'[u] # job[u]
        <3>1. PICK t \in Thread : OnlyJob(t) \/ CountValidations(t)
            BY <2>2, JobsInv DEF Inv
        <3>2. CountValidations(t) /\ t = u
            BY <3>1, <2>2, <1>2 DEF OnlyJob, CountValidations, Goto, Inv, Jobs
        <3>3. job'[u].ledger = job[u].ledger /\ vals' = vals
            BY <3>2 DEF CountValidations, Goto, Inv, Jobs, Job
        <3>4. HasQuorum(Trusted, NegativeUNL, vals, job[u].ledger)
            BY <3>2, <1>2 DEF CountValidations, Goto, Inv, Jobs, Job
        <3> QED  BY <3>3, <3>4
    <2> QED  BY <2>1, <2>2
<1> QED  BY <1>1, <1>2 DEF Counted, HasQuorum, negativeUNLFilter, quorum, calculateQuorum

(* The invariant holds in every state of every behaviour. *)
LEMMA InvAlways == Spec => []Inv
<1>1. Init => Inv
    <2> SUFFICES ASSUME Init PROVE Inv
        OBVIOUS
    <2>1. \A t \in Thread : job[t] = Idle
        BY DEF Init
    <2>2. Idle.pc # "Note"
        BY DEF Idle
    <2>3. Jobs
        BY IdleOK DEF Init, Jobs
    <2>4. vals \in [NodeID -> SUBSET Ledger]
        BY DEF Init
    <2>5. Counted
        BY <2>1, <2>2, <2>4 DEF Counted
    <2> QED  BY <2>3, <2>5 DEF Inv
<1>2. Inv /\ [Next]_vars => Inv'
    <2> SUFFICES ASSUME Inv, [Next]_vars PROVE Inv'
        OBVIOUS
    <2>1. CASE Next
        BY <2>1, JobsInv, CountedInv DEF Inv
    <2>2. CASE UNCHANGED vars
        BY <2>2 DEF vars, Inv, Jobs, Counted, HasQuorum, negativeUNLFilter
    <2> QED  BY <2>1, <2>2
<1> QED  BY <1>1, <1>2, PTL DEF Spec

(***************************************************************************)
(* checkAccept, as the threads run it, keeps the promise of                *)
(* ValidatedLedger, for any number of threads, validators and ledgers.     *)
(***************************************************************************)
THEOREM Implements == Spec => KeepsPromise
<1>1. Init => Promise!Init
    BY SameNotions DEF Init, Promise!Init
<1>2. Inv /\ [Next]_vars => [Promise!Next]_<<vals, validLedger, lastValidLedger>>
    BY StepSimulation DEF vars, promised
<1> QED  BY <1>1, <1>2, InvAlways, PTL DEF Spec, KeepsPromise, Promise!Spec

=============================================================================
