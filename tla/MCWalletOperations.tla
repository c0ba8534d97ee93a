------------------------- MODULE MCWalletOperations -------------------------
(* Instance of WalletOperations for TLC. *)
EXTENDS WalletOperations

CONSTANTS i1, i2
=============================================================================
