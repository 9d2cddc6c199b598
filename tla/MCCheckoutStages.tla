--------------------------- MODULE MCCheckoutStages ---------------------------
(* A small instance of CheckoutStages for TLC: two customers who buy the same
   shirt. *)
EXTENDS CheckoutStages

CONSTANTS c1, c2, shirt

TwoCustomers == {c1, c2}
SameShirt == [c \in TwoCustomers |-> shirt]

=============================================================================
