------------------------ MODULE MCPropertyAccessors ------------------------
(* Two threads, an ivar, two objects to set it to and room for the copies  *)
(* that are alive at one time: one in the ivar, and two with each thread.  *)
EXTENDS PropertyAccessors, TLC

CONSTANTS t1, t2, name, a, b, c1, c2, c3, c4, c5

MCThread  == {t1, t2}
MCThread1 == {t1}
MCIvar    == {name}
MCValue   == {a, b}
MCCopy    == {c1, c2, c3, c4, c5}

AllCalls  == Setter
Original  == {"objc_setProperty"}

Symmetry  == Permutations(MCThread) \cup Permutations(MCValue)
               \cup Permutations(MCCopy)
=============================================================================
