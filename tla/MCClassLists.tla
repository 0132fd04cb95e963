---------------------------- MODULE MCClassLists ----------------------------
(* A compiled superclass with one entry of each kind and a subclass with   *)
(* none; two names, which properties, protocols and methods share.         *)
EXTENDS ClassLists, TLC

CONSTANTS t1, t2, Super, Sub, x, y, p

MCThread    == {t1, t2}
MCClass     == {Super, Sub}
MCItem      == {x, y}
MCAttributes  == {p}
Symmetry      == Permutations(MCThread)
MCLineage   == Super :> <<Super>> @@ Sub :> <<Sub, Super>>
MCCompiled  == [k \in Kind |->
  Super :> <<[item |-> x, attributes |-> IF k = "property" THEN p ELSE NoAttributes]>>
    @@ Sub :> <<>>]
=============================================================================
