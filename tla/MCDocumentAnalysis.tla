-------------------------- MODULE MCDocumentAnalysis ---------------------------
(* TLC instances of DocumentAnalysis: the entities of a document are two    *)
(* properties, or one property found under two identities.                  *)
EXTENDS DocumentAnalysis, TLC

CONSTANTS e1, e2, e3, p1, p2

TwoProperties == (e1 :> p1) @@ (e2 :> p2)
Mixed == (e1 :> p1) @@ (e2 :> p1) @@ (e3 :> p2)
OneProperty   == [e \in Entities |-> p1]
Symmetry      == Permutations(Workers) \cup Permutations(Documents)
WorkerSymmetry == Permutations(Workers)
================================================================================
