----------------------------- MODULE MCDispatch -----------------------------
(* Dispatch on small instances: calls are interchangeable. *)
EXTENDS Dispatch, TLC

CallSymmetry == Permutations(Calls)

=============================================================================
