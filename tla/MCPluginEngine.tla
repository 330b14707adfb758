--------------------------- MODULE MCPluginEngine ---------------------------
(* One plugin whose configuration entry is replaced, disabled or removed. *)
EXTENDS PluginEngine, TLC

CONSTANTS pa, va, vb

EveryConfig == [Plugins -> Entries]
WithPlugin  == [Plugins -> Entries \ {"absent"}]
VersionSymmetry == Permutations(Versions)
=============================================================================
