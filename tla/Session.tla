------------------------------ MODULE Session ------------------------------
(***************************************************************************)
(* src/node/internal/session/session.go: the shares one node has collected *)
(* for one seed.  A session is a value here; Node keeps one per request.    *)
(*                                                                         *)
(* A share is what operator index claims to have signed.  For one seed and  *)
(* one operator exactly one curve point verifies against the group's        *)
(* commitments: "good" is that point, "bad" any other, and "other" a share  *)
(* that names another seed.                                                 *)
(***************************************************************************)
EXTENDS Integers, FiniteSets

CONSTANTS
  Operators,   \* size of the group
  Threshold    \* shares a signature takes

ASSUME GroupAssumption ==
  /\ Operators \in Nat \ {0}
  /\ Threshold \in 1..Operators

Indices == 0..(Operators - 1)

Share == [index : Indices, sig : {"good", "bad", "other"}]

NoIndex == -1

Sessions == [partials : SUBSET Share, spent : SUBSET Indices,
             equivocation : Indices \cup {NoIndex}, verifications : Nat]

NewSession ==
  [partials |-> {}, spent |-> {}, equivocation |-> NoIndex, verifications |-> 0]

(* Mutant of SameShare: a repeated share counts as a conflict. *)
NeverSame(s, p) == FALSE

Known(s, p) == \E e \in s.partials : e.index = p.index

(* existing.Sig.Equal(p.Sig) *)
SameShare(s, p) == p \in s.partials

(* Mutant: any point passes. *)
AnyPartial(p) == TRUE

VerifyPartial(p) == p.sig = "good"

(* The first conflict is kept. *)
recordEquivocation(s, p) ==
  [s EXCEPT !.equivocation = IF @ = NoIndex THEN p.index ELSE @,
            !.spent = @ \cup {p.index}]

(* Mutant: only a share that verifies spends its operator's attempt. *)
AddUnspent(s, p) ==
  IF Known(s, p)
  THEN IF SameShare(s, p) THEN s ELSE recordEquivocation(s, p)
  ELSE IF VerifyPartial(p)
  THEN [s EXCEPT !.spent = @ \cup {p.index}, !.verifications = @ + 1,
                 !.partials = @ \cup {p}]
  ELSE [s EXCEPT !.verifications = @ + 1]

(* The session after Add(p): a share already filed is ignored, one that
   conflicts with it is recorded, and an index is verified once. *)
Add(s, p) ==
  IF Known(s, p)
  THEN IF SameShare(s, p) THEN s ELSE recordEquivocation(s, p)
  ELSE IF p.index \in s.spent
  THEN s
  ELSE [s EXCEPT !.spent = @ \cup {p.index},
                 !.verifications = @ + 1,
                 !.partials = IF VerifyPartial(p) THEN @ \cup {p} ELSE @]

(* Add returned no error. *)
AddAccepts(s, p) ==
  IF Known(s, p) THEN SameShare(s, p)
  ELSE p.index \notin s.spent /\ VerifyPartial(p)

Collected(s) == Cardinality(s.partials)

Ready(s) == Collected(s) >= Threshold

(* The group signature, by the shares it is interpolated from: it verifies  *)
(* when these are a quorum of good ones. *)
Signature(s) == s.partials
=============================================================================
