# A TLA+ model of the XRP Ledger server

The server (`xrpld`) takes part in a peer-to-peer network that agrees, every few
seconds, on the next ledger. This directory holds TLA+ specifications of the parts
that decide *which* ledger that is: how validations of other servers are collected
and turned into a preferred ledger, how a round of consensus is run, and how a
ledger becomes fully validated and is published. TLC checks the specifications on
small instances; TLAPS proves the main results for every value of the constants.

Paths below are relative to the repository.

## 1. The system and its parts

### How the parts interact

```
   peers ──proposals, tx sets──▶ NetworkOPs ──▶ RCLConsensus / Consensus ──▶ doAccept
     │                            ▲   ▲ heartbeat        │ getPrevLedger        │ build
     │                            │   │                  ▼                      ▼
     └──validations──▶ recvValidation ─▶ Validations ◀─ LedgerTrie      LedgerMaster
                              │              ▲ trustChanged               checkAccept
                              └──────────────┼──── checkAccept ─────────▶ doAdvance
                                        ValidatorList (quorum, UNL)           │
                                                                       subscribers
```

A proposal or validation arrives on a peer's socket, is verified in a job, and is
handed to `NetworkOPs`. Proposals reach `Consensus` under one mutex; a heartbeat
timer drives its phases. Validations are kept by `Validations`, whose trie of ledger
ancestry answers which ledger the network prefers; `Consensus` asks for it at every
heartbeat. Trusted validations also lead to `LedgerMaster::checkAccept`, which makes
a ledger fully validated once it has a quorum; the *advance* job then publishes the
validated ledgers in order, acquiring those that are missing.

### Inventory

| Part | State | Operations | What is hard | Properties worth having |
|---|---|---|---|---|
| Ledger trie (`consensus/LedgerTrie.h`) | nodes with spans and supports, support by sequence | insert, remove, getPreferred (which sorts children), queries | splits and merges over long histories; walking compressed spans; windows of 256 ancestors | structure kept; a bag of ledgers; exact supports; the preferred ledger is that of the definition |
| Validations (`consensus/Validations.h`) | current validations, sets by ledger and sequence with ages, sequence enforcers, trie, last ledgers, ledgers being acquired | canValidateSeq, add, expire, setSeqToKeep, trustChanged, queries, flush | ledgers that arrive late; trust changes; expiry at different times; iteration in hash order | the trie counts each node once; one ledger per sequence; no stale request; no needless switch |
| Disputed transactions (`consensus/DisputedTx.h`) | our vote, peers' votes and tallies, avalanche state | setVote, unVote, updateVote, stalled | rising thresholds, own weight | tallies match votes; stalled is final; votes settle |
| Consensus engine (`consensus/Consensus.h`, `.cpp`) | phase, mode, ledgers, result, disputes, positions | startRound, timerEntry, peerProposal, gotTxSet, simulate | order of arrivals; stale peers; a change of ledger in mid-round; unlocked readers after accept | votes match positions; complete disputes; a reason to end; frozen results; rounds end |
| Ledger master (`app/ledger/detail/LedgerMaster.cpp`) | validated, last valid and published ledger, ledger being built, advance job | checkAccept, consensusBuilt, switchLCL, tryAdvance, doAdvance | reads before locks; threads; wake-ups; missing ledgers and gaps | quorum and monotonicity; published in order; no lost wake-up |
| Validator list (`app/misc/detail/ValidatorList.cpp`) | trusted keys, negative UNL, quorum | updateTrusted, applyLists | quorum and trust change at different times | agreement of servers whose UNLs overlap |
| Network operations (`app/misc/NetworkOPs.cpp`) | operating mode, heartbeat, pending validations | heartbeat, begin/endConsensus, recvValidation, submission | callers of everything above | (with the parts called) |
| Ledger acquisition (`app/ledger/detail/Inbound*.cpp`) | acquisitions with timeouts and peer sets | init, onTimer, gotData, done | timeouts racing data; failed acquisitions | ends exactly once; no request lost |
| Ledger replay, history, cleaner | tasks, skip lists, deltas; hashes by index | callbacks and timers | shared sub-tasks, weak pointers | every task ends |
| Open ledger, local transactions, TxQ | open view, account queues, fee metrics | modify, accept, apply, processClosedLedger | limits and fee escalation | bounds; order by fee; no blocked account |
| Amendments, fee and negative UNL votes | votes with time-outs, scores | doVoting, trustChanged, onTimer | votes that expire | one vote per trusted validator |
| Online delete, node store | writable and archive backend, read queue | rotate, fetch, store, sync | rotation with concurrent fetches | nothing needed is lost |
| Job queue, workers, hash router, resources | counts and limits per type, flags with expiry | addJob, processTask, stop; setFlags; charge | limits, stop | limits hold; every job runs |
| Overlay, peer finder | slots, counts, squelch | connect, activate, squelch | counts over all transitions | counts match slots |
| SHAMap, views, transactions | copy-on-write trees, nested views, ledger objects | | sharing; rules | refinement of maps |

The remaining parts (protocol formats, cryptography, JSON, RPC, SQL, start-up,
logging) are input and output; `PROJECT.json` lists every part with its status and
the hazards with the source line where each one bites.

## 2. Modules

| Module | Models |
|---|---|
| `LedgerAncestry` | `RCLValidatedLedger`: IDs, sequences, ancestors (`At`), `mismatch`; and the *meaning* of a bag of validated ledgers: branch support, uncommitted support, preferred ledger |
| `LedgerBag` | abstract specification: what the trie promises |
| `LedgerTrie` | the compressed trie itself |
| `Validations`, `ValidationsProofs` | `Validations<Adaptor>`, one action per method, and its proofs |
| `ConsensusRules` | parameters, thresholds and `DisputedTx` as pure operators |
| `DisputedTx`, `DisputedTxProofs` | the life of one disputed transaction, and its proofs |
| `Consensus` | the consensus engine and its callers |
| `ConsensusProgress` | the same, driven by a heartbeat that never stops |
| `ValidationQuorum` | quorum, negative UNL filter, the rule of increasing sequences |
| `ValidatedLedger` | abstract specification: how the validated ledger may move |
| `LedgerMaster`, `LedgerMasterProofs` | threads that handle validations, built and acquired ledgers, and the advance job; proof that they implement `ValidatedLedger` |
| `ValidatedNetwork`, `ValidatedNetworkProofs` | several servers (each what `ValidatedLedger` promises), validators and a network that loses, repeats and reorders; proof of agreement |
| `MC...` | instances for TLC |

Definitions keep the names of the code. A definition `D_Variant` beside `D` is `D`
with a plausible mistake; substituting it must break the property it is listed with
(`PROJECT.json`, `mutants`), which shows that the property depends on that code.

### LedgerTrie

A node is a record with its span `[start, end)` of a ledger, its supports and its
children in the order of the code's vector (`Erase` moves the last child into the
hole as the code does). `getPreferred` is an action because it sorts the children on
its way; `partial_sort` leaves the order of the others unspecified, here they keep
theirs. After a removal the code walks upwards while nodes have no tip support; the
model looks at every ancestor, which is the same because the nodes above already
satisfy the structure. `Window` is the number of ancestor hashes a ledger carries.

### Validations

The variables are the members of the class. The trie is the bag that `LedgerTrie`
implements (`ImplementsBag`, run `trie`). Every public method holds the mutex, so it is one
action. Loops over hash maps run in no particular order: a node in several entries of
`acquiring_` ends with any one of their ledgers (`Picks`), and in `trustChanged` some
of the removed nodes come before the first added one (`early`). The environment lets
the clock advance, ledgers arrive and be swept, and validations arrive with a sign
time around the present. Their trust is read elsewhere, without the lock, so `Spec`
lets it be anything; `SettledSpec` is the case in which it is that of the last
`trustChanged`. `ValStatus`, cookies, `laggards` and the counts by ledger do not
change state and are left out; the queries appear as `touchLedger`,
`iterateCurrent` and `withTrie`, which is what they do to the state.

### Consensus

The engine is one record and a handler maps it to the set of engines it may leave
behind, one for each answer of the adaptor (the preferred ledger, the ledgers and sets
at hand, the number of validators that have moved on). Clock readings are kept as the
time passed since, up to the largest value the code compares with. A transaction set
is its own ID. Abstractions: `getPrevLedger` gives the same answer if it is asked twice
within one `timerEntry`; the time since the last close is not negative and does not
restart in wrongLedger mode; `shouldPause` waits or not, freely, but not beyond
`ledgerMaxConsensus`; `rawCloseTimes_` and `getJson` are output only; the idle interval
is constant. `sent` records what was last broadcast, for the properties.

### LedgerMaster

A worker thread's `job` is a program counter with a stack of what follows (`then`). A
step is what a thread does between two reads or locks another thread can come
between: the too-old test, the count of validations, the lookup and
`canBeCurrent` of `checkAccept` are separate steps, and the locked part is one. The
advance job holds the lock except while it searches, publishes or fetches history.
Abstractions: the trusted set and the negative UNL do not change and validations do
not expire (`MayAdd` is what `Validations::add` lets through: increasing sequences of a
validator); `validLedger_` and `validLedgerSeq_` are written together; the search
for ledgers is one step (history only grows, so it takes effect at its last look-up);
storing a built ledger is the beginning of `consensusBuilt`; an acquisition that
completes at once is one that completes next. Saving, `completeLedgers_`, the
content of history, replay, path finding (a free choice of `progress`), fees,
amendment warnings and standalone mode are left out. `Validation`, `Builds`,
`Untimely` and `Unavailable` bound the inputs.

### ValidatedNetwork

Working validators sign increasing sequences (`canValidateSeq`), faulty ones sign
anything; a validator that restarts counts as faulty, because its enforcer is not
persisted. Servers hold the validations of those they trust. The quorum is
`calculateQuorum` in exact arithmetic (the code's single precision gives one more for
a few sizes) with all publisher lists available. What is shown is agreement at a
sequence; that validated ledgers of *different* sequences are on one branch depends on
consensus and is not shown.

## 3. What TLC checks

All passing runs finish with the instances below; bounds are constants of the cfg.

| Run | Instance | Shows |
|---|---|---|
| `trie` | a tree of 5 ledgers with forks at two levels, counts 1 and 2, support up to 4 | `checkInvariants`, `BranchSupportExact`, `PreferredExact`; `ImplementsBag`: refinement of `LedgerBag` |
| `validations` | 2 nodes, 3 ledgers with a fork, settled trust (`SettledSpec`) | `TypeOK`, `TrieCountsLastLedgers`, `AcquiringIsCurrent`, `FinishedAreCounted`, `PreferredStays`, `WithTrieSeesCurrent` |
| `validations_sequences` | 1 node, times on both sides of the expiry, keep ranges, trust in flight (`Spec`) | `OneLedgerPerSequence` |
| `disputes` | 5 peers (one of six votes may then oppose a stalled vote), 5 changes | `TypeOK`, `CountsMatchVotes`, `StalledIsFinal`; `VoteSettles` under fairness |
| `consensus_votes` | 2 peers, 1 transaction, 3 proposals | `TypeOK`, `VotesMatchPositions`, `DisputesComplete`, `EndsForAReason` |
| `consensus_ledgers` | 1 peer, 2 previous ledgers, 2 proposals | `PeersKnowOurPosition`, `PositionsForThisLedger`, `RightLedgerUnlessWrong`, `AcceptedIsFrozen` |
| `consensus_progress` | 1 peer, 2 close times, 2 proposals | `RoundEnds` under fairness |
| `validated` | a fork of 3 ledgers, 2 validators, 2 threads | `LastValidAgrees`; `KeepsPromise`: refinement of `ValidatedLedger` |
| `publish_order` | a line of 4 ledgers, gap 2, one that may fail, one untimely, one built; 3 validators, one on the negative UNL | `TypeOK`, `NextIsComing`, `PublishedInOrder` |
| `publish_live` | a line of 3 ledgers, gap 1, one built | `EventuallyPublished` under fairness |
| `network_agreement` | 2 servers, UNLs `{n1,n2,n3}` and `{n2,n3}`, `n3` faulty, 3 ledgers | `AgreeAtSequence` |

**Bounds.** Durations are one to four ticks, in the order the code's parameters have,
so that every comparison is met from both sides; percentages are the code's. Two peers
or threads suffice for the interleavings the handlers distinguish; properties
about proportions have five peers. A vote that stalls against a peer that disagrees
needs five peers and is covered by `disputes`. Where the behaviour stops
because its inputs are used up (the trie at its largest support, all proposals sent,
the clock at `MaxTime`) deadlock is not checked; `LedgerMaster` is checked for it.

**Fairness.** `DisputedTx`: the timer fires and time passes (`WF(UpdateVote(200))`).
`ConsensusProgress`: heartbeats never stop, since `processHeartbeatTimer` re-arms the
timer on every path. `LedgerMaster`: jobs that run go on (`WF(Step)`, `WF(Advance)`),
ledgers asked for arrive (`WF(Acquired)`; failing ones are left out of this run), and a
queued AcqDone job gets a thread in the end although validations keep taking it
(`SF(AcqDone)`): the job queue takes jobs by priority and has bounded load.

### Where code and comments disagree

The run `validations_trust` is expected to find a violation of `OnlyTrustedSupport`.
The comment on `trustChanged` (`Validations.h`) says that it "updates the trie to ensure
only currently trusted nodes' validations are used". `removeTrie` takes support away only
if the node's last *acquired* ledger is that of its current validation. A node that
loses its trust while its newest ledger is still being acquired keeps its support on
the older one.

Other places where the model, like the code, does not do what a comment says; none of
them affects the properties above, and no run is kept for them:

* `withTrie`: "any stale validations are flushed from the trie". The same case, when the
  newest validation goes stale before its ledger was acquired.
* `getPreferred`: the preferred ledger is "*not* an ancestor of the current working
  ledger". The fallback to ledgers that are being acquired returns any of them.
* `tipSupport`: "The number of entries in the trie for this *exact* ledger". Ledgers that
  are further apart than the ancestor hashes they carry may get two nodes with one tip.
* `stalled`: neither we nor the peers have changed a vote for several rounds. This is not
  tested on a server that does not propose.
* `ConsensusMode::WrongLedger`: "We have the wrong ledger". The mode stays when the network
  returns to the ledger we work from. The diagram of modes has neither the direct switch to
  a ledger at hand nor the step from proposing to observing.
* `ConsensusResult::state`: "either Yes or MovedOn or Expired" once accepted. After
  `simulate` it is No.
* `consensusBuilt`: "ledgers with sufficient validations" are those with more than
  `neededValidations`, while `checkAccept` accepts at that number.

## 4. What is proved

TLAPS checks these theorems for every value of the constants that satisfies the
named assumptions (`AncestryAssumption`, `ValidationsAssumption`, ...), which TLC
evaluates on every instance.

* **`ValidationsProofs`**. `TypeCorrect`, `TrieExact` (the trie counts each node's last
  ledger once) and `OneLedger` (one ledger per sequence within the expiry).
  `TrieCountsLastLedgers` is inductive with the types: every operation on the support
  is a composition of `Drop` and `Move`, and lemmas show that each keeps the counts,
  by the cardinality of the set of supporters before and after. For `OneLedger` the
  invariant `SequenceInv` adds that the enforcer of a node knows every sequence and
  time of its stored validations that can still matter.
* **`DisputedTxProofs`**. `TypeCorrect`, `CountsExact`, `StalledFinal`. A type
  invariant with natural tallies is not inductive by itself: that a tally can be
  reduced needs `CountsMatchVotes`, so the two are proved together, with
  `LastLevelFinal` (what a fresh vote at the last avalanche level implies).
* **`LedgerMasterProofs`**. `Implements`: `Spec => KeepsPromise`, for any number of
  threads. The inductive invariant says that jobs are well formed: a thread
  that is about to accept has a ledger, one that adds a validation has a node and a
  ledger. Each step is a step of `ValidatedLedger` or leaves its variables alone.
* **`ValidatedNetworkProofs`**. `Agreement`: `Spec => []AgreeAtSequence`, from
  `OverlapAssumption` (two quorums share more validators than are faulty). The
  invariant: working validators have signed one ledger per sequence (`SignedOnce`),
  servers hold what was signed (`HeldWasSigned`), and accepted ledgers keep their
  quorum (`AcceptedHasQuorum`). The lemma `QuorumsMeet` counts: two quorums have a
  working validator in common, which signed both ledgers.

Only model-checked: liveness (`VoteSettles`, `RoundEnds`, `EventuallyPublished`),
everything about `LedgerTrie` and `Consensus` (recursive operators, or folds over
sequences of positions), and the publication properties of `LedgerMaster`.

## 5. What is not modelled, and the plan

Not modelled yet: transaction processing, ledger contents and their storage, the
overlay's sockets, RPC, configuration. The models take ledgers as given IDs with an
ancestry, transactions as names, and messages as delivered in any order.

Order of the work that follows:

1. *Trust and votes*: `ValidatorList` with publisher lists, manifests and negative UNL;
   trust that changes in `LedgerMaster`; `NegativeUNLVote`, `AmendmentTable`.
   Restart of validators in `ValidatedNetwork`.
2. *Acquisition*: `InboundLedger` with `TimeoutCounter`, `InboundTransactions`,
   `LedgerReplay` tasks, composed with `LedgerMaster`'s `acquire`. Close time resolution
   (`LedgerTiming`) as operators.
3. *Scheduling*: `JobQueue` and `Workers` (limits, deferred jobs, stop), which justify
   the fairness assumed above; `HashRouter`, `Resource` manager.
4. *Storage*: rotating node store with `SHAMapStore`, batch writer, `TaggedCache`;
   `LedgerHistory`.
5. *Transactions*: `TxQ`, `OpenLedger`, `LocalTxs`, censorship detector.
6. *Network*: `PeerFinder` slots and counts, squelching.
7. *Proofs*: `LedgerMaster`'s `TypeOK`, `NextIsComing` and `PublishedInOrder`; an
   abstract specification of a consensus round that `Consensus` implements; safety of
   the modules above.
