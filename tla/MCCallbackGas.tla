--------------------------- MODULE MCCallbackGas ---------------------------
(***************************************************************************)
(* CallbackGas with the repository's measurements, for callback budgets of  *)
(* every remainder by 63, small and large.                                  *)
(***************************************************************************)
EXTENDS CallbackGas
Budgets == 1..130 \cup 2499900..2500000
Words == {1, 10, 40, 45, 100, 500}
(* docs/benchmark.md, Phase 5: 200,000 for one word with cold slots, its trivial
   callback included, of which 157,295 is the cryptography and 2,906 is left
   here for the record; Phase 2: 41,000 more for a hundred words.  The 21,000
   of a transaction and about 2,000 for its data are not in these figures. *)
Cold == [w \in Words |-> 39799 + 410 * (w - 1)]
(* The same measurements right after the publisher withdrew: 236,500. *)
SteadyOrWithdrawn == {0, 36500}
(* No limit of its own, or one with room for the largest budget. *)
Generous == {DefaultGasLimit, 3000000}
============================================================================
