-------------------------- MODULE ChainAddresses --------------------------
(***************************************************************************)
(* The addresses the contracts tell apart.  An address may be a person, an *)
(* operator or a contract, and may play several parts at once.             *)
(***************************************************************************)
EXTENDS FiniteSets

CONSTANTS
  Addresses,   \* accounts and contracts that may call, own, consume or be paid
  NoAddr,      \* address(0), which nobody can call from
  Managers,    \* those that open and manage accounts, or deploy the coordinator
  Offers       \* those accounts are offered to (NoAddr withdraws an offer)

MaybeAddress == Addresses \cup {NoAddr}

ASSUME AddressAssumption ==
  /\ IsFiniteSet(Addresses)
  /\ NoAddr \notin Addresses
  /\ Managers \subseteq Addresses
  /\ Offers \subseteq MaybeAddress
===========================================================================
