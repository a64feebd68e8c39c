-------------------------- MODULE MCMetadataStore --------------------------
(* The metadata store alone: two IDs, two names, two targets, two volumes
   and two clock readings, every argument a caller could pass, and a caller
   that acts on what it read before. *)
EXTENDS StoreCallers, TLC

StoreSymmetry == Permutations(Ids) \cup Permutations(Names) \cup Permutations(Targets)
                   \cup Permutations(Volumes) \cup Permutations(Callers)
=============================================================================
