--------------------------- MODULE MCCreditStore ---------------------------
(***************************************************************************)
(* Two workers, two accounts, one deposit both accounts may record and     *)
(* operations that record none.                                            *)
(***************************************************************************)
EXTENDS CreditStore

MCDepositOf == [o \in Ops |-> CASE o = "d1" -> "k1" [] o = "d2" -> "k2" [] OTHER -> None]
=============================================================================
