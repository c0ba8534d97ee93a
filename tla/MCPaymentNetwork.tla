-------------------------- MODULE MCPaymentNetwork --------------------------
(***************************************************************************)
(* A withdrawable and a closed-loop mint.  The limits of u64 are scaled so *)
(* that the largest amount fits the conversion to millisats once.          *)
(***************************************************************************)
EXTENDS PaymentNetwork

MCMode == [open |-> "Withdrawable", closed |-> "ClosedLoop"]
=============================================================================
