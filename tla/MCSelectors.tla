----------------------------- MODULE MCSelectors -----------------------------
(* Three threads; two names of fewer than 16 arguments, one of them known  *)
(* from compiled code, and one wide name.                                  *)
EXTENDS Selectors, TLC

CONSTANTS t1, t2, t3, narrow, wide, compiled, id1, id2, id3

MCThread   == {t1, t2, t3}
MCName     == {narrow, wide, compiled}
MCId       == {id1, id2, id3}
MCHash     == narrow :> id1 @@ wide :> id2 @@ compiled :> id3
MCWide     == {wide}
MCCompiled == {compiled}
=============================================================================
