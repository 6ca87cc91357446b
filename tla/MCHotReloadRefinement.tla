----------------------- MODULE MCHotReloadRefinement -----------------------
(***************************************************************************)
(* The instances of MCHotReload with a single writer, for the refinement.  *)
(***************************************************************************)
EXTENDS MCHotReload, HotReloadRefinement

=============================================================================
