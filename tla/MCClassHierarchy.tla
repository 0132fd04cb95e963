-------------------------- MODULE MCClassHierarchy --------------------------
(* A root, two compiled classes below it of which A implements foo for its *)
(* instances and for itself, and a class that is allocated and moved.      *)
EXTENDS ClassHierarchy, TLC

CONSTANTS t1, t2, root, A, B, C, foo, f1, f2

MCThread   == {t1, t2}
MCClass    == {root, A, B, C}
MCCompiled == {root, A, B}
MCRank     == root :> 0 @@ A :> 1 @@ B :> 2 @@ C :> 3
MCParent   == A :> root @@ B :> root
MCSel      == {foo}
MCDefines  == {<<A, "infra">>, <<A, "meta">>} \X MCSel
MCSent     == {<<C, "infra">>, <<C, "meta">>} \X MCSel
MCHandler  == {f1, f2}

Symmetry == Permutations(MCThread) \cup Permutations(MCHandler)
=============================================================================
