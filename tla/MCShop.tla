------------------------------- MODULE MCShop --------------------------------
(***************************************************************************)
(* Small instances of Shop: one plan that database.go creates, which is    *)
(* also the one the portal falls back to, and an id for another.           *)
(***************************************************************************)
EXTENDS Shop

CONSTANTS p1

\* 20 shillings, as database.go has it, and a price with cents.
low == 2000
odd == 1950
TwoPrices == {low, odd}
OnePrice == {low}

SeedOne == [p \in Plans |-> IF p = p1 THEN low ELSE NotSold]

=============================================================================
