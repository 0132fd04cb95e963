-------------------------- MODULE MCUniverseTables --------------------------
(* The main thread and another one; a compiled class and two that can be   *)
(* allocated; three Protocol structs for two names, so that two threads    *)
(* can allocate one for the same name.                                     *)
EXTENDS UniverseTables, TLC

CONSTANTS main, other, Root, A, B, p1, p2, p3, Copying, Coding

MCThread   == {main, other}
MCClass    == {Root, A, B}
MCCompiled == {Root}
MCStruct   == {p1, p2, p3}
MCId       == {Copying, Coding}

Symmetry == Permutations({A, B}) \cup Permutations(MCStruct)
              \cup Permutations(MCId)
=============================================================================
