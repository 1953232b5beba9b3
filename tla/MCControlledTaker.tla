------------------------- MODULE MCControlledTaker -------------------------
(***************************************************************************)
(* The controlled taker for TLC: a book with a deep second level, one with *)
(* dust on top and one that is crossed; two failures trip the breaker.     *)
(***************************************************************************)
EXTENDS ControlledTaker

MCBooks == {[bids |-> <<<<20, 5>>, <<19, 6>>>>, asks |-> <<<<21, 4>>, <<22, 5>>, <<30, 9>>>>],
            [bids |-> <<<<20, 7>>>>, asks |-> <<<<21, 1>>, <<22, 4>>>>],
            [bids |-> <<<<22, 6>>>>, asks |-> <<<<21, 4>>>>]}
=============================================================================
