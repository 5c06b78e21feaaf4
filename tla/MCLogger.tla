----------------------------- MODULE MCLogger ------------------------------
(* Logger for TLC: the columns are interchangeable.                        *)
EXTENDS Logger, TLC

Symmetry == Permutations(Names)
=============================================================================
