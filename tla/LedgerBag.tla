----------------------------- MODULE LedgerBag -----------------------------
(***************************************************************************)
(* What LedgerTrie promises: it is a bag of ledgers.  The support of a     *)
(* ledger grows by what is inserted and shrinks by what is removed, down   *)
(* to zero, whatever else the trie holds.                                  *)
(***************************************************************************)
EXTENDS LedgerAncestry

CONSTANT Count      \* the amounts of support inserted or removed at a time

VARIABLE bag

BagInit == bag = [l \in Ledger |-> 0]

BagInsert(l, n) == bag' = [bag EXCEPT ![l] = @ + n]

BagRemove(l, n) == bag' = [bag EXCEPT ![l] = @ - MinOf(n, @)]

BagNext == \E l \in Ledger, n \in Count : BagInsert(l, n) \/ BagRemove(l, n)

BagSpec == BagInit /\ [][BagNext]_bag

=============================================================================
