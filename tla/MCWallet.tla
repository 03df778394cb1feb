------------------------------ MODULE MCWallet ------------------------------
(* Wallet with the poll loop and one publishing goroutine. *)
EXTENDS Wallet
=============================================================================
