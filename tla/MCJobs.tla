------------------------------- MODULE MCJobs -------------------------------
(* Small instances of Jobs for TLC.                                        *)
EXTENDS Jobs, TLC

Symmetry == Permutations(Orders)
=============================================================================
