------------------------------ MODULE MCStats ------------------------------
(***************************************************************************)
(* Two runs of xdp_loader, which may load a build with fewer actions than  *)
(* xdp_stats was built for, and one run of xdp_stats.                      *)
(***************************************************************************)
EXTENDS Stats, TLC

MCEntries == "xdp_prog_kern.o" :> 2 @@ "syncookie.o" :> 1
Symmetry  == Permutations(Runs)
=============================================================================
