---------------------------- MODULE MCIvarLayout ----------------------------
(* A compiled root of 2 bytes, two classes to derive, and two types of the *)
(* class pair test: a char and an object; 8 bytes are passed as the size of *)
(* both, and as alignments none and 3, which the test passes for an object. *)
EXTENDS IvarLayout, TLC

CONSTANTS root, a, b, x, y, z, char, object

MCClass     == {root, a, b}
MCName      == {x, y, z}
MCType      == {char, object}
MCTypeSize  == char :> 1 @@ object :> 8
MCTypeAlign == char :> 1 @@ object :> 8
MCSize      == {0, 8}
MCAlignment == {0, 3}
MCZero      == {0}
Symmetry    == Permutations({a, b}) \cup Permutations(MCName)
=============================================================================
