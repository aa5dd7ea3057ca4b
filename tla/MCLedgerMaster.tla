--------------------------- MODULE MCLedgerMaster ---------------------------
(***************************************************************************)
(* Small instances of LedgerMaster.                                        *)
(***************************************************************************)
EXTENDS LedgerMaster, TLC

CONSTANTS n1, n2, n3, t1, t2

(* Two ledgers of sequence 1, one of which has a child. *)
ForkChain == (1 :> <<1>>) @@ (2 :> <<2>>) @@ (3 :> <<1, 3>>)

(* The child is validated by one validator more than needed, its parent by *)
(* just enough; the other ledger is the server's own.                      *)
ForkValidations == {<<n1, 1>>, <<n1, 3>>, <<n2, 3>>}

Symmetry == Permutations({t1, t2})

(* Lines of ledgers. *)
Line(n) == [l \in 1 .. n |-> [i \in 1 .. l |-> i]]
Line4 == Line(4)
Line5 == Line(5)

(* Ledgers without validations are acquired to publish those that follow. *)
FirstAndLast == {n1} \X {1, 4}
AllButSecond == {n1} \X (Ledger \ {2})

=============================================================================
