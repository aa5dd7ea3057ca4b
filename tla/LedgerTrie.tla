----------------------------- MODULE LedgerTrie -----------------------------
(***************************************************************************)
(* LedgerTrie (src/xrpld/consensus/LedgerTrie.h): the compressed trie of   *)
(* ledger ancestry with the support of every branch.  A node is a record   *)
(* that holds its span [start, end) of a ledger, its supports and, in the  *)
(* order of the code's vector, its children.                               *)
(***************************************************************************)
EXTENDS LedgerAncestry, SequencesExt

CONSTANTS
    Count,          \* the amounts of support inserted or removed at a time
    Issued,         \* the values of largestIssued
    MaxSupport      \* bound on the total support

ASSUME TrieAssumption ==
    /\ Count \subseteq Nat \ {0}
    /\ Issued \subseteq Nat
    /\ MaxSupport \in Nat

VARIABLES
    root,           \* root_
    seqSupport      \* seqSupport_: the tip support by sequence number

vars == <<root, seqSupport>>

AllSeq == {seq(l) : l \in Ledger}

NewNode(start, end, lgr, tip, branch, kids) ==
    [start |-> start, end |-> end, lgr |-> lgr, tip |-> tip, branch |-> branch, kids |-> kids]

EmptyRoot == NewNode(0, 1, Genesis, 0, 0, <<>>)

-----------------------------------------------------------------------------
(***************************************************************************)
(* Spans                                                                   *)
(***************************************************************************)
Clamp(node, s) == MinOf(MaxOf(node.start, s), node.end)

diff(node, l) == Clamp(node, mismatch(node.lgr, l))

startID(node) == At(node.lgr, node.start)

tipID(node) == At(node.lgr, node.end - 1)

(* The span of loc extended over its only child, which ends later. *)
Merge(loc, child) == [child EXCEPT !.start = loc.start]

-----------------------------------------------------------------------------
(***************************************************************************)
(* find: go on to the first child that matches beyond the whole span.      *)
(***************************************************************************)
Matching(node, l) ==
    {i \in DOMAIN node.kids : diff(node, l) = node.end /\ diff(node.kids[i], l) > node.end}

First(I) == CHOOSE i \in I : \A j \in I : i <= j

RECURSIVE find(_, _)
find(node, l) ==
    IF Matching(node, l) = {} THEN node ELSE find(node.kids[First(Matching(node, l))], l)

(***************************************************************************)
(* findByLedgerID: the path to the first node with tip l, in preorder, as  *)
(* a set that is empty if there is none.                                   *)
(***************************************************************************)
RECURSIVE Hits(_, _)
Hits(node, l) ==
    (IF tipID(node) = l THEN {<<>>} ELSE {})
        \cup UNION {{<<i>> \o p : p \in Hits(node.kids[i], l)} : i \in DOMAIN node.kids}

Preorder(p, q) ==
    \/ IsPrefix(p, q)
    \/ \E i \in DOMAIN p \cap DOMAIN q :
          p[i] < q[i] /\ \A j \in 1 .. i - 1 : p[j] = q[j]

findByLedgerID(l) ==
    {p \in Hits(root, l) : \A q \in Hits(root, l) : Preorder(p, q)}

RECURSIVE NodeAt(_, _)
NodeAt(node, path) ==
    IF path = <<>> THEN node ELSE NodeAt(node.kids[Head(path)], Tail(path))

-----------------------------------------------------------------------------
InsertHere_KeepsTip(node, l, n) ==
    LET pos    == diff(node, l)
        prefix == IF pos < node.end
                  THEN NewNode(node.start, pos, node.lgr, node.tip, node.branch,
                               <<[node EXCEPT !.start = pos]>>)
                  ELSE node
    IN  IF pos <= seq(l)
        THEN [prefix EXCEPT !.kids = Append(@, NewNode(pos, seq(l) + 1, l, n, n, <<>>)),
                            !.branch = @ + n]
        ELSE [prefix EXCEPT !.tip = @ + n, !.branch = @ + n]

(***************************************************************************)
(* insert: at the node that find returns, split the span where the ledger  *)
(* leaves it (oldSuffix), and add the rest of the ledger (newSuffix).      *)
(***************************************************************************)
InsertHere(node, l, n) ==
    LET pos       == diff(node, l)
        oldSuffix == pos < node.end
        newSuffix == pos <= seq(l)
        prefix    == IF oldSuffix
                     THEN NewNode(node.start, pos, node.lgr, 0, node.branch,
                                  <<[node EXCEPT !.start = pos]>>)
                     ELSE node
        added     == NewNode(pos, seq(l) + 1, l, n, n, <<>>)
    IN  IF newSuffix
        THEN [prefix EXCEPT !.kids = Append(@, added), !.branch = @ + n]
        ELSE [prefix EXCEPT !.tip = @ + n, !.branch = @ + n]

RECURSIVE insertInto(_, _, _)
insertInto(node, l, n) ==
    IF Matching(node, l) = {} THEN InsertHere(node, l, n)
    ELSE [node EXCEPT !.branch = @ + n,
                      !.kids[First(Matching(node, l))] = insertInto(@, l, n)]

(***************************************************************************)
(* remove: take support away at the node on the path, then erase nodes     *)
(* without support and merge those with one child, upwards.                *)
(***************************************************************************)
Erase(kids, i) == Front([kids EXCEPT ![i] = Last(kids)])

Compress_NeverMerges(node, i) ==
    IF node.kids[i].tip = 0 /\ node.kids[i].kids = <<>> THEN [node EXCEPT !.kids = Erase(@, i)]
    ELSE node

Compress(node, i) ==
    LET kid == node.kids[i]
    IN  CASE kid.tip = 0 /\ Len(kid.kids) = 0 -> [node EXCEPT !.kids = Erase(@, i)]
          [] kid.tip = 0 /\ Len(kid.kids) = 1 -> [node EXCEPT !.kids[i] = Merge(kid, kid.kids[1])]
          [] OTHER -> node

RECURSIVE removeAt(_, _, _)
removeAt(node, path, n) ==
    IF path = <<>> THEN [node EXCEPT !.tip = @ - n, !.branch = @ - n]
    ELSE LET below == [node EXCEPT !.branch = @ - n,
                                   !.kids[Head(path)] = removeAt(@, Tail(path), n)]
         IN  Compress(below, Head(path))

-----------------------------------------------------------------------------
(***************************************************************************)
(* Queries                                                                 *)
(***************************************************************************)
tipSupport(l) ==
    IF Hits(root, l) = {} THEN 0 ELSE NodeAt(root, CHOOSE p \in findByLedgerID(l) : TRUE).tip

branchSupport_AnySpan(l) ==
    IF Hits(root, l) # {} THEN NodeAt(root, CHOOSE p \in findByLedgerID(l) : TRUE).branch
    ELSE LET loc == find(root, l)
         IN  IF seq(l) < loc.end THEN loc.branch ELSE 0

branchSupport(l) ==
    IF Hits(root, l) # {} THEN NodeAt(root, CHOOSE p \in findByLedgerID(l) : TRUE).branch
    ELSE LET loc == find(root, l)
         IN  IF diff(loc, l) > seq(l) /\ seq(l) < loc.end THEN loc.branch ELSE 0

empty == root.branch = 0

(* The sort of getPreferred: the two largest children, by branch support *)
(* and then by starting ID, come first.                                   *)
Before(kids, i, j) ==
    \/ kids[i].branch > kids[j].branch
    \/ kids[i].branch = kids[j].branch /\ startID(kids[i]) > startID(kids[j])
    \/ kids[i].branch = kids[j].branch /\ startID(kids[i]) = startID(kids[j]) /\ i < j

SortTwo(kids) ==
    IF Len(kids) < 2 THEN kids
    ELSE LET Top(I) == CHOOSE i \in I : \A j \in I \ {i} : Before(kids, i, j)
             one == Top(DOMAIN kids)
             two == Top(DOMAIN kids \ {one})
         IN  <<kids[one], kids[two]>> \o
                SelectSeq(kids, LAMBDA k : k # kids[one] /\ k # kids[two])

(* The advance of nextSeq along a span: "counted" is the set of sequences *)
(* whose support uncommitted already includes.                             *)
Supported == {s \in AllSeq : seqSupport[s] > 0}

uncommitted(counted) == SumOver(seqSupport, counted)

RECURSIVE Advance(_, _, _)
Advance(node, nextSeq, counted) ==
    LET left == {s \in Supported \ counted : s < node.end}
    IN  IF nextSeq < node.end /\ node.branch > uncommitted(counted)
        THEN IF left # {} THEN Advance(node, First(left) + 1, counted \cup {First(left)})
             ELSE Advance(node, node.end, counted)
        ELSE [nextSeq |-> nextSeq, counted |-> counted]

margin_NoTieBreak(kids) ==
    IF Len(kids) = 1 THEN kids[1].branch ELSE kids[1].branch - kids[2].branch

margin(kids) ==
    IF Len(kids) = 1 THEN kids[1].branch
    ELSE kids[1].branch - kids[2].branch
            + (IF startID(kids[1]) > startID(kids[2]) THEN 1 ELSE 0)

(* The preferred tip, and the trie with the children on the way sorted. *)
RECURSIVE PreferredFrom(_, _, _)
PreferredFrom(node, counted, largestIssued) ==
    LET early  == {s \in Supported : s < MaxOf(node.start + 1, largestIssued)}
        a      == Advance(node, node.start + 1, counted \cup early)
        kids   == SortTwo(node.kids)
        u      == uncommitted(a.counted)
        sorted == [node EXCEPT !.kids = kids]
    IN  IF a.nextSeq < node.end
        THEN [tip |-> At(node.lgr, a.nextSeq - 1), trie |-> node]
        ELSE IF kids # <<>> /\ (margin(kids) > u \/ u = 0)
        THEN LET p == PreferredFrom(kids[1], a.counted, largestIssued)
             IN  [tip |-> p.tip, trie |-> [sorted EXCEPT !.kids[1] = p.trie]]
        ELSE [tip |-> tipID(node), trie |-> sorted]

-----------------------------------------------------------------------------
(***************************************************************************)
(* The operations                                                          *)
(***************************************************************************)
Init ==
    /\ root = EmptyRoot
    /\ seqSupport = [s \in AllSeq |-> 0]

insert(l, n) ==
    /\ root.branch + n <= MaxSupport
    /\ root' = insertInto(root, l, n)
    /\ seqSupport' = [seqSupport EXCEPT ![seq(l)] = @ + n]

remove(l, n) ==
    /\ tipSupport(l) > 0
    /\ LET c == MinOf(n, tipSupport(l))
       IN  /\ root' = removeAt(root, CHOOSE p \in findByLedgerID(l) : TRUE, c)
           /\ seqSupport' = [seqSupport EXCEPT ![seq(l)] = @ - c]

getPreferred(largestIssued) ==
    /\ ~empty
    /\ root' = PreferredFrom(root, {}, largestIssued).trie
    /\ UNCHANGED seqSupport

Next ==
    \/ \E l \in Ledger, n \in Count : insert(l, n) \/ remove(l, n)
    \/ \E i \in Issued : getPreferred(i)

Spec == Init /\ [][Next]_vars

-----------------------------------------------------------------------------
(***************************************************************************)
(* Properties                                                              *)
(***************************************************************************)
RECURSIVE NodesOf(_)
NodesOf(node) ==
    <<node>> \o FlattenSeq([i \in DOMAIN node.kids |-> NodesOf(node.kids[i])])

Total(nodes, Val(_)) == FoldLeft(LAMBDA sum, k : sum + Val(k), 0, nodes)

(***************************************************************************)
(* The structure a long series of splits, merges and erasures must keep    *)
(* (LedgerTrie::checkInvariants): only the root or a node with tip support *)
(* has fewer than two children, the branch support of a node is its tip    *)
(* support plus that of its children, and seqSupport_ counts the tips; a   *)
(* child begins where its parent ends.                                     *)
(***************************************************************************)
checkInvariants ==
    LET nodes == NodesOf(root)
        TipAt(s) == Total(SelectSeq(nodes, LAMBDA k : k.end - 1 = s), LAMBDA k : k.tip)
    IN  /\ \A i \in DOMAIN nodes :
             /\ i > 1 /\ nodes[i].tip = 0 => Len(nodes[i].kids) >= 2
             /\ nodes[i].branch = nodes[i].tip + Total(nodes[i].kids, LAMBDA k : k.branch)
             /\ nodes[i].start < nodes[i].end
             /\ \A j \in DOMAIN nodes[i].kids : nodes[i].kids[j].start = nodes[i].end
        /\ \A s \in AllSeq : seqSupport[s] = TipAt(s)

(***************************************************************************)
(* The trie implements the bag: insert and remove of a ledger change the   *)
(* tip support of that ledger and of no other, wherever nodes are split    *)
(* and merged; a query that sorts children changes nothing.                *)
(***************************************************************************)
TipBag == [l \in Ledger |-> tipSupport(l)]

Bag == INSTANCE LedgerBag WITH bag <- TipBag

ImplementsBag == Bag!BagSpec

(***************************************************************************)
(* The branch support found by ID, or by the longest matching span for a   *)
(* ledger inside a span, is the support of the ledger and its descendants. *)
(***************************************************************************)
BranchSupportExact ==
    \A l \in Ledger : branchSupport(l) = BranchSupportOf(TipBag, l)

(***************************************************************************)
(* getPreferred, which walks compressed spans and jumps between changes of *)
(* seqSupport_, finds the ledger that the "preferred by branch" rule names *)
(* when it is applied sequence by sequence to the whole ancestry.          *)
(***************************************************************************)
PreferredExact ==
    ~empty => \A i \in Issued :
        PreferredFrom(root, {}, i).tip = PreferredOf(TipBag, i)

=============================================================================
