-------------------------- MODULE MCWalletStartup --------------------------
(* Instance of WalletStartup for TLC: processes are interchangeable, and so  *)
(* are seeds, which are only compared.                                       *)
EXTENDS WalletStartup, TLC

StartupSymmetry == Permutations(Procs) \cup Permutations(Seeds)
=============================================================================
