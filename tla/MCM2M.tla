------------------------------- MODULE MCM2M -------------------------------
(* M2M, with its refinement, on small instances.                           *)
EXTENDS M2MRefinement

CONSTANTS p1, p2, p3
=============================================================================
