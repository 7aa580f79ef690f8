----------------------------- MODULE Rewriting -----------------------------
(***************************************************************************)
(* What schema-canonicalize promises of a function whose validations form  *)
(* trees, whatever its patterns and the order the driver applies them in:  *)
(* a rewrite never changes the verdict and always makes the function       *)
(* lighter, so there is an end to it.                                      *)
(***************************************************************************)
EXTENDS Naturals

VARIABLES verdict, weight

Init == weight \in Nat

Rewrite ==
  /\ verdict' = verdict
  /\ weight' \in Nat /\ weight' < weight

Spec == Init /\ [][Rewrite]_<<verdict, weight>>

=============================================================================
