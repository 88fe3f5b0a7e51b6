-------------------------- MODULE MC_DmgBlockDevice --------------------------
(* Instances of DmgBlockDevice for TLC. *)
EXTENDS DmgBlockDevice, TLC

Sym == Permutations(Devs) \cup Permutations(Vals)
==============================================================================
