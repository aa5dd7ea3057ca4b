--------------------------- MODULE LedgerAncestry ---------------------------
(***************************************************************************)
(* Ledgers as the validation code sees them: an ID, a sequence number and  *)
(* the IDs of the recent ancestors (RCLValidatedLedger), and the support a *)
(* bag of validated ledgers gives to each of them.  A bag is what          *)
(* LedgerTrie promises to store; LedgerTrie.tla shows that the compressed  *)
(* trie stores it.                                                         *)
(***************************************************************************)
EXTENDS Integers, FiniteSets, Sequences

CONSTANTS
    Ledger,     \* ledger IDs: positive integers, so that ties are broken by >
    Chain,      \* Chain[l]: the IDs of l and its ancestors, oldest first
    Window      \* how many ancestor hashes a ledger carries (256 in the code)

(***************************************************************************)
(* The pseudo ledger of sequence 0 that prefixes every other one           *)
(* (MakeGenesis), whose ID is also the ID of an unknown ancestor.          *)
(***************************************************************************)
Genesis == 0

ASSUME AncestryAssumption ==
    /\ Ledger \subseteq Nat \ {0}
    /\ IsFiniteSet(Ledger)
    /\ Window \in Nat \ {0}
    /\ Chain \in [Ledger -> Seq(Ledger)]
    /\ \A l \in Ledger : Len(Chain[l]) > 0 /\ Chain[l][Len(Chain[l])] = l

(***************************************************************************)
(* Two ledgers that agree at a sequence number agree at all earlier ones.  *)
(***************************************************************************)
ASSUME UniqueHistory ==
    \A a, b \in Ledger : \A s \in DOMAIN Chain[a] \cap DOMAIN Chain[b] :
        Chain[a][s] = Chain[b][s] => \A p \in 1 .. s : Chain[a][p] = Chain[b][p]

-----------------------------------------------------------------------------

MinOf(a, b) == IF a < b THEN a ELSE b
MaxOf(a, b) == IF a < b THEN b ELSE a

seq(l) == IF l = Genesis THEN 0 ELSE Len(Chain[l])

(* The oldest sequence whose hash the ledger carries. *)
minSeq(l) == IF l = Genesis THEN 0 ELSE MaxOf(1, seq(l) - Window)

(* operator[]: the ID of the ancestor at sequence s, Genesis if unknown. *)
At(l, s) ==
    IF l # Genesis /\ s >= minSeq(l) /\ s <= seq(l) THEN Chain[l][s] ELSE Genesis

(***************************************************************************)
(* The sequence number of the first possibly mismatching ancestor: one     *)
(* above the highest match in the interval both ledgers know, 1 if there   *)
(* is no match.                                                            *)
(***************************************************************************)
mismatch(a, b) ==
    LET lower == MaxOf(minSeq(a), minSeq(b))
        upper == MinOf(seq(a), seq(b))
        match == {s \in lower .. upper : At(a, s) = At(b, s)}
    IN  IF match = {} THEN 1
        ELSE 1 + CHOOSE s \in match : \A t \in match : t <= s

-----------------------------------------------------------------------------
(***************************************************************************)
(* The meaning of a bag of validated ledgers, bag \in [Ledger -> Nat], by  *)
(* the full ancestry.                                                      *)
(***************************************************************************)
IsAncestorOrSelf(a, l) ==
    a = Genesis \/ (seq(a) <= seq(l) /\ Chain[l][seq(a)] = a)

(* The sum of f[x] over the finite set S, as the cardinality of a set of *)
(* pairs, which needs no recursion.                                       *)
SumOver(f, S) ==
    Cardinality(UNION {{<<x, i>> : i \in 1 .. f[x]} : x \in S})

BranchSupportOf(bag, l) == SumOver(bag, {d \in Ledger : IsAncestorOrSelf(l, d)})

(* The support that has yet to validate a ledger of sequence s. *)
UncommittedOf(bag, s, largestIssued) ==
    SumOver(bag, {d \in Ledger : seq(d) < MaxOf(s, largestIssued)})

(* The known ledgers that follow p directly and have support. *)
SupportedChildren(bag, p) ==
    {c \in Ledger : /\ seq(c) = seq(p) + 1
                    /\ IsAncestorOrSelf(p, c)
                    /\ BranchSupportOf(bag, c) > 0}

(***************************************************************************)
(* c keeps the relative majority among the children of p, ties going to    *)
(* the larger ID, however the uncommitted support is given out, also if    *)
(* all of it goes to a ledger not known yet.                               *)
(***************************************************************************)
Dominates(bag, p, c, largestIssued) ==
    LET u == UncommittedOf(bag, seq(c), largestIssued)
    IN  /\ c \in SupportedChildren(bag, p)
        /\ BranchSupportOf(bag, c) > u
        /\ \A d \in SupportedChildren(bag, p) \ {c} :
             \/ BranchSupportOf(bag, c) > BranchSupportOf(bag, d) + u
             \/ BranchSupportOf(bag, c) = BranchSupportOf(bag, d) + u /\ c > d

(* The ledgers reached from genesis by steps to a dominating child. *)
DominantChain(bag, largestIssued) ==
    {l \in Ledger : \A s \in 1 .. seq(l) :
        Dominates(bag, IF s = 1 THEN Genesis ELSE Chain[l][s - 1], Chain[l][s],
                  largestIssued)}

(* The preferred ledger of a bag that is not empty. *)
PreferredOf(bag, largestIssued) ==
    LET D == DominantChain(bag, largestIssued) \cup {Genesis}
    IN  CHOOSE l \in D : \A m \in D : seq(m) <= seq(l)

=============================================================================
