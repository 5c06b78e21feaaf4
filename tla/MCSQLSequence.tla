--------------------------- MODULE MCSQLSequence ---------------------------
(* Instances of SQLSequence for TLC.                                       *)
EXTENDS SQLSequence

CONSTANTS Increments, Maxima

(* A minimum of 1 is below all starts but 0, with which a cycle begins at  *)
(* once and a sequence without one never gives a number.                   *)
MCDefinitions == [min : {1}, max : Maxima, increment : Increments, cacheinc : {1, 2},
                  cycle : BOOLEAN]

ASSUME MCAssumption == Agreed
=============================================================================
