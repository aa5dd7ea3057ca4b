---------------------------- MODULE MCLedgerTrie ----------------------------
(***************************************************************************)
(* A small instance of LedgerTrie: a tree of ledgers with three branches,  *)
(*     1 - 2 - 4,  2 - 5,  1 - 3.                                          *)
(***************************************************************************)
EXTENDS LedgerTrie

MCChain ==
    (1 :> <<1>>) @@ (2 :> <<1, 2>>) @@ (3 :> <<1, 3>>) @@ (4 :> <<1, 2, 4>>)
        @@ (5 :> <<1, 2, 5>>)

=============================================================================
