------------------------------ MODULE MCObjects ------------------------------
(* Two threads, three addresses, words of four bytes: a class with one     *)
(* ivar, a subclass with two, and one with an ivar and two more bytes.     *)
EXTENDS Objects, TLC

CONSTANTS t1, t2, o1, o2, o3, Point, Point3D, Flagged, x, z

MCThread == {t1, t2}
MCObject == {o1, o2, o3}
MCClass  == {Point, Point3D, Flagged}
MCName   == {x, z}
MCOffset == Point :> (x :> 0) @@ Point3D :> (x :> 0 @@ z :> 4)
              @@ Flagged :> (x :> 0)
MCSize   == Point :> 4 @@ Point3D :> 8 @@ Flagged :> 6
MCExtra  == {0, 4, 8}

Symmetry == Permutations(MCThread) \cup Permutations(MCObject)
=============================================================================
