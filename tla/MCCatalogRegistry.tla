-------------------------- MODULE MCCatalogRegistry --------------------------
(* Small instances of CatalogRegistry: each catalog has one command, whose   *)
(* endpoint a re-import or a patch changes.                                  *)
EXTENDS CatalogRegistry, TLC

CONSTANTS a, b

One(t) == {{[name |-> t, http |-> h]} : h \in {"v1", "v2"}}
OneEach == [t \in Titles |-> One(t)]
TitleSymmetry == Permutations(Titles)
=============================================================================
