------------------------- MODULE MCValidatedNetwork -------------------------
(***************************************************************************)
(* Two servers, one trusting three validators and one trusting two of      *)
(* them, of which one is faulty.                                           *)
(***************************************************************************)
EXTENDS ValidatedNetwork, TLC

CONSTANTS s1, s2, n1, n2, n3

MCUNL == (s1 :> {n1, n2, n3}) @@ (s2 :> {n2, n3})

(* Two ledgers of sequence 1, and a child of the first. *)
MCChain == (1 :> <<1>>) @@ (2 :> <<2>>) @@ (3 :> <<1, 3>>)

=============================================================================
