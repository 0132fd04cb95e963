--------------------------- MODULE AtomicDispatch ---------------------------
(***************************************************************************)
(* What the calls that take the universe lock promise each other about the *)
(* implementations of methods: adding, replacing and exchanging happen in  *)
(* one step each.  (Lookups take no lock and are not promised this: they   *)
(* can see an exchange half done.)                                         *)
(***************************************************************************)
CONSTANTS Method, Imp, NoImp, Defined

VARIABLE table

Init == table = Defined

(* class_addMethod, or class_replaceMethod where the class has no method.  *)
Add(m, i) ==
  /\ table[m] = NoImp
  /\ table' = [table EXCEPT ![m] = i]

(* class_replaceMethod where the class has the method.                     *)
Replace(m, i) ==
  /\ table[m] # NoImp
  /\ table' = [table EXCEPT ![m] = i]

(* method_exchangeImplementations.                                         *)
Exchange(m, n) ==
  /\ table[m] # NoImp /\ table[n] # NoImp
  /\ table' = [table EXCEPT ![m] = table[n], ![n] = table[m]]

Next ==
  \/ \E m \in Method, i \in Imp : Add(m, i) \/ Replace(m, i)
  \/ \E m, n \in Method : Exchange(m, n)

Spec == Init /\ [][Next]_table
=============================================================================
