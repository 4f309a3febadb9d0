----------------------------- MODULE MCMediaJob -----------------------------
(***************************************************************************)
(* MediaJob on small instances.  Slots, uploads and contents are           *)
(* interchangeable.                                                        *)
(***************************************************************************)
EXTENDS MediaJob, TLC

Symmetry ==
    Permutations(Runs) \cup Permutations(Doors) \cup Permutations(Contents)
=============================================================================
