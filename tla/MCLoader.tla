------------------------------ MODULE MCLoader ------------------------------
(***************************************************************************)
(* Instances of Loader with a few runs of xdp_loader on one interface.     *)
(***************************************************************************)
EXTENDS Loader, TLC

Symmetry == Permutations(Runs)
=============================================================================
