----------------------------- MODULE MCDevList -----------------------------
(***************************************************************************)
(* Instances of DevList for TLC.                                           *)
(***************************************************************************)
EXTENDS DevList, TLC

(* Hosts differ in nothing but their addresses.                            *)
Symmetry == Permutations(Addrs)
=============================================================================
