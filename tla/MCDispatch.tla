----------------------------- MODULE MCDispatch -----------------------------
(* Dispatch with interchangeable calls and clients, for TLC.               *)
EXTENDS Dispatch, TLC

Symmetry == Permutations(Calls) \cup Permutations(Clients)
=============================================================================
