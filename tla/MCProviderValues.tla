-------------------------- MODULE MCProviderValues --------------------------
(* Two sets of arguments of one provider, whose fetches overlap. *)
EXTENDS ProviderValues, TLC
CONSTANTS k1, k2
MCKeys == {k1, k2}
KeySymmetry == Permutations(MCKeys)
=============================================================================
