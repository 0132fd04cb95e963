------------------------------ MODULE MCMethods ------------------------------
(* A root class with a subclass, two selectors, and the methods of the two *)
(* compiled classes: in MCInherited the subclass inherits foo and nobody    *)
(* has bar, in MCOverride it overrides foo and nobody has registered bar.  *)
EXTENDS Methods, TLC

CONSTANTS t1, t2, Super, Sub, foo, bar, i1, i2, i3, i4, i5

MCThread  == {t1, t2}
MCClass   == {Super, Sub}
MCSel     == {foo, bar}
MCImp2    == {i1, i2}
MCImp5    == {i1, i2, i3, i4, i5}
MCLineage == Super :> <<Super>> @@ Sub :> <<Sub, Super>>
MCOverride == (<<Super, foo>> :> i1) @@ (<<Sub, foo>> :> i2)
               @@ [m \in MCClass \X MCSel |-> NoImp]
MCInherited == (<<Super, foo>> :> i1) @@ [m \in MCClass \X MCSel |-> NoImp]
MCFoo      == {foo}

AllCalls     == EntryPoint
WriterCalls  == {"addMethod", "replaceMethod", "exchange"}

Fresh    == MCImp5 \ {i1, i2}
Symmetry == Permutations(MCThread) \cup Permutations(Fresh)
=============================================================================
