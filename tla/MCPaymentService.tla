-------------------------- MODULE MCPaymentService --------------------------
(***************************************************************************)
(* PaymentService on small sets.  The sets hold model values; requests,    *)
(* deliveries, devices and plans are interchangeable in every property.    *)
(***************************************************************************)
EXTENDS PaymentService, TLC

Symmetry == Permutations(Checkouts) \cup Permutations(Tries)
              \cup Permutations(Macs) \cup Permutations(Plans)

=============================================================================
