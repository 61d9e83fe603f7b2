------------------------------ MODULE MCRouter ------------------------------
(* Instances of Router for TLC.  Requests are interchangeable: no property  *)
(* and no action tells one from another.                                    *)
EXTENDS Router, TLC

RequestSymmetry == Permutations(Requests)
=============================================================================
