--------------------------- MODULE MCExtractionFanIn ---------------------------
(* TLC instances of ExtractionFanIn: two units of one report and one unit  *)
(* of another; the address is in the first unit of each.                   *)
EXTENDS ExtractionFanIn, TLC

CONSTANTS u1, u2, u3, r1, r2, p1, p2

TheReports  == (u1 :> r1) @@ (u2 :> r1) @@ (u3 :> r2)
OneProperty == (r1 :> p1) @@ (r2 :> p1)
TwoProperties == (r1 :> p1) @@ (r2 :> p2)
OneEach == [u \in Units |-> 1]
Nothing == [u \in Units |-> 0]
Symmetry == Permutations(Workers)
================================================================================
