----------------------------- MODULE MCCeremony -----------------------------
(* A first ceremony of two operators, or a resharing from one of them to    *)
(* both; their files list them in opposite orders. *)
EXTENDS Ceremony
ListedBy ==
  << [members |-> <<1, 2>>, oldMembers |-> <<1>>], [members |-> <<2, 1>>, oldMembers |-> <<1>>] >>
=============================================================================
