-------------------------- MODULE IvarLayoutProofs --------------------------
(***************************************************************************)
(* Theorems about the layout of instances, for every class tree, every     *)
(* set of types and every sizes and alignments callers may pass.           *)
(***************************************************************************)
EXTENDS IvarLayout, TLAPS

(* A number of 8 bits is the sum of its bits.                              *)
LEMMA SumOfBits ==
  ASSUME NEW y \in 0 .. 255
  PROVE  y = ((y % 2) + 2 * ((y \div 2) % 2) + 4 * ((y \div 4) % 2)
                + 8 * ((y \div 8) % 2) + 16 * ((y \div 16) % 2)
                + 32 * ((y \div 32) % 2) + 64 * ((y \div 64) % 2)
                + 128 * ((y \div 128) % 2))
  BY SMTT(60)

(* Masking with y keeps some of y's bits.                                  *)
LEMMA And8Bound ==
  ASSUME NEW x \in Nat, NEW y \in 0 .. 255
  PROVE  And8(x, y) \in 0 .. y
<1> DEFINE bit(p) == (y \div p) % 2
<1>1. \A p \in {1, 2, 4, 8, 16, 32, 64, 128} :
        BitOf(x, y, p) \in Nat /\ BitOf(x, y, p) <= p * bit(p)
  BY DEF BitOf, BitSet
<1>2. y = bit(1) + 2 * bit(2) + 4 * bit(4) + 8 * bit(8) + 16 * bit(16)
            + 32 * bit(32) + 64 * bit(64) + 128 * bit(128)
  BY SumOfBits
<1>3. \A p \in {1, 2, 4, 8, 16, 32, 64, 128} : bit(p) \in Nat
  OBVIOUS
<1> HIDE DEF bit
<1>4. /\ BitOf(x, y, 1) <= bit(1) /\ BitOf(x, y, 2) <= 2 * bit(2)
      /\ BitOf(x, y, 4) <= 4 * bit(4) /\ BitOf(x, y, 8) <= 8 * bit(8)
      /\ BitOf(x, y, 16) <= 16 * bit(16) /\ BitOf(x, y, 32) <= 32 * bit(32)
      /\ BitOf(x, y, 64) <= 64 * bit(64) /\ BitOf(x, y, 128) <= 128 * bit(128)
  BY <1>1, <1>3
<1> QED
  BY <1>1, <1>2, <1>3, <1>4 DEF And8

(* Rounding never goes below the offset, even where the alignment is not a *)
(* power of two, as the 3 callers pass for a pointer.                      *)
LEMMA RoundUpBound ==
  ASSUME NEW offset \in Nat, NEW alignment \in 1 .. 255
  PROVE  RoundUp(offset, alignment) \in Nat /\ RoundUp(offset, alignment) >= offset
<1>1. alignment - 1 \in 0 .. 255 /\ offset + alignment \in Nat
  OBVIOUS
<1>2. And8(offset + alignment, alignment - 1) \in 0 .. (alignment - 1)
  BY <1>1, And8Bound
<1> QED
  BY <1>2 DEF RoundUp

-----------------------------------------------------------------------------
(* A superclass is registered, so it is not given ivars any more; a class  *)
(* that does not exist has none.                                           *)
SuperInv ==
  \A c \in Class :
    /\ super[c] # NoClass => state[super[c]] = "registered"
    /\ state[c] = "none" => super[c] = NoClass

IInv ==
  TypeOK /\ SuperInv /\ Fits /\ NoOverlap /\ OneIvarPerName /\ InheritedInPlace

(* The root class has no ivars the model knows of.                         *)
LEMMA InitIInv == Init => IInv
  BY LayoutAssumption
  DEF Init, IInv, TypeOK, SuperInv, Fits, NoOverlap, OneIvarPerName,
      InheritedInPlace

(* A new class starts with the layout and size of its superclass.          *)
LEMMA AllocateIInv ==
  ASSUME IInv, NEW c \in Class, NEW s \in Class, AllocateClassPair(c, s)
  PROVE  IInv'
<1> USE LayoutAssumption DEF IInv, TypeOK, AllocateClassPair
<1>1. TypeOK'
  OBVIOUS
<1>2. SuperInv'
  BY DEF SuperInv
<1>3. Fits' /\ NoOverlap' /\ OneIvarPerName'
  BY DEF Fits, NoOverlap, OneIvarPerName
<1>4. InheritedInPlace'
  BY DEF InheritedInPlace, SuperInv
<1> QED
  BY <1>1, <1>2, <1>3, <1>4

(* Registering a class changes no layout.                                  *)
LEMMA RegisterIInv ==
  ASSUME IInv, NEW c \in Class, RegisterClassPair(c)
  PROVE  IInv'
  BY DEF IInv, TypeOK, SuperInv, Fits, NoOverlap, OneIvarPerName,
         InheritedInPlace, RegisterClassPair

(* A duplicate takes its superclass's layout, and its own ivars keep the   *)
(* names and the places they have in the original; nothing is derived yet. *)
LEMMA DuplicateIInv ==
  ASSUME IInv, NEW c \in Class, NEW d \in Class, DuplicateClass(c, d)
  PROVE  IInv'
<1> DEFINE p == super[c]
           copies == {[v EXCEPT !.class = d] : v \in OwnIvars(c)}
<1>1. /\ p \in Class /\ state[p] = "registered" /\ p # d /\ c # d
      /\ state[d] = "none" /\ super[d] = NoClass
      /\ layout[p] \subseteq layout[c]
      /\ \A e \in Class : super[e] # d
  BY LayoutAssumption
  DEF DuplicateClass, IInv, TypeOK, SuperInv, InheritedInPlace
<1>2. /\ state' = [state EXCEPT ![d] = "allocated"]
      /\ super' = [super EXCEPT ![d] = p]
      /\ layout' = [layout EXCEPT ![d] = layout[p] \cup copies]
      /\ instancesize' = [instancesize EXCEPT ![d] = instancesize[p]]
      /\ undersized' \subseteq undersized \cup {d} /\ undersized \subseteq undersized'
      /\ d \notin undersized' => copies = {} /\ p \notin undersized
  BY DEF DuplicateClass
<1>3. \A w \in copies : \E v \in OwnIvars(c) :
        w \in IvarRecord /\ w.name = v.name /\ w = [v EXCEPT !.class = d]
  BY DEF OwnIvars, IvarRecord, IInv, TypeOK
<1>4. \A v \in OwnIvars(c) : v \in layout[c] /\ v \notin layout[p] /\ v \in IvarRecord
  BY DEF OwnIvars, IInv, TypeOK
<1> HIDE DEF p, copies
<1>5. /\ layout'[d] = layout[p] \cup copies /\ instancesize'[d] = instancesize[p]
      /\ \A e \in Class \ {d} : layout'[e] = layout[e]
                                 /\ instancesize'[e] = instancesize[e]
  BY <1>2 DEF IInv, TypeOK
<1>6. TypeOK'
  BY <1>1, <1>2, <1>3 DEF IInv, TypeOK
<1>7. SuperInv'
  BY <1>1, <1>2 DEF IInv, TypeOK, SuperInv
<1>8. Fits' /\ NoOverlap'
  BY <1>1, <1>2, <1>5 DEF IInv, Fits, NoOverlap
<1>9. OneIvarPerName'
  <2>1. \A v, w \in layout[c] : v.name = w.name => v = w
    BY DEF IInv, OneIvarPerName
  <2>2. \A v, w \in layout[p] : v.name = w.name => v = w
    BY <1>1, <2>1
  <2>3. \A v, w \in copies : v.name = w.name => v = w
    BY <1>3, <1>4, <2>1
  <2>4. \A v \in layout[p], w \in copies : v.name # w.name
    BY <1>1, <1>3, <1>4, <2>1
  <2>5. \A v, w \in layout'[d] : v.name = w.name => v = w
    BY <1>5, <2>2, <2>3, <2>4
  <2> QED
    BY <1>5, <2>5 DEF IInv, OneIvarPerName
<1>10. InheritedInPlace'
  BY <1>1, <1>2, <1>5 DEF IInv, TypeOK, InheritedInPlace
<1> QED
  BY <1>6, <1>7, <1>8, <1>9, <1>10 DEF IInv

(* Only a class without subclasses is disposed, so nothing inherits from it. *)
LEMMA DisposeIInv ==
  ASSUME IInv, NEW c \in Class, DisposeClassPair(c)
  PROVE  IInv'
<1> USE LayoutAssumption DEF IInv, TypeOK, DisposeClassPair
<1>1. TypeOK' /\ SuperInv'
  BY DEF SuperInv
<1>2. Fits' /\ NoOverlap' /\ OneIvarPerName'
  BY DEF Fits, NoOverlap, OneIvarPerName
<1>3. InheritedInPlace'
  BY DEF InheritedInPlace, SuperInv
<1> QED
  BY <1>1, <1>2, <1>3

(* The new ivar lies behind all ivars there are, and the instance grows to *)
(* hold it.                                                                *)
LEMMA AddIvarIInv ==
  ASSUME IInv, NEW c \in Class, NEW n \in Name, NEW size \in Size,
         NEW alignment \in Alignment, NEW ty \in Type,
         AddIvar(c, n, size, alignment, ty)
  PROVE  IInv'
<1> DEFINE align  == IF alignment = 0 THEN TypeAlign[ty] ELSE alignment
           bytes  == IF size = 0 THEN TypeSize[ty] ELSE size
           offset == RoundUp(instancesize[c], align)
           v      == Ivar(c, n, instancesize[c], bytes, ty)
<1>1. align \in 1 .. 255 /\ bytes \in Nat
  BY LayoutAssumption
<1>2. offset \in Nat /\ offset >= instancesize[c]
  BY <1>1, RoundUpBound DEF IInv, TypeOK
<1>3. /\ \A w \in layout[c] : w.name # n
      /\ state[c] = "allocated"
      /\ layout' = [layout EXCEPT ![c] = @ \cup {v}]
      /\ instancesize' = [instancesize EXCEPT ![c] = offset + bytes]
      /\ state' = state /\ super' = super /\ undersized' = undersized
  BY DEF AddIvar, HasIvar, InUniverse, IInv, TypeOK
<1>4. /\ v \in IvarRecord /\ v.name = n
      /\ v.offset = instancesize[c] /\ v.size = bytes
  BY <1>1 DEF Ivar, IvarRecord, IInv, TypeOK
<1> HIDE DEF align, bytes, offset, v
<1>5. TypeOK'
  BY <1>1, <1>2, <1>3, <1>4 DEF IInv, TypeOK
<1>6. SuperInv'
  BY <1>3 DEF IInv, SuperInv
<1>7. /\ layout'[c] = layout[c] \cup {v}
      /\ instancesize'[c] = offset + bytes
      /\ undersized' = undersized
      /\ \A d \in Class \ {c} : layout'[d] = layout[d]
                                /\ instancesize'[d] = instancesize[d]
  BY <1>3 DEF IInv, TypeOK
<1>8. \A d \in Class : \A w \in layout[d] : w.offset \in Nat /\ w.size \in Nat
  BY DEF IInv, TypeOK, IvarRecord
<1>9. Fits'
  BY <1>1, <1>2, <1>4, <1>7, <1>8 DEF IInv, TypeOK, Fits
<1>10. NoOverlap'
  BY <1>1, <1>2, <1>4, <1>7, <1>8 DEF IInv, TypeOK, Fits, NoOverlap
<1>11. OneIvarPerName'
  BY <1>3, <1>4, <1>7 DEF IInv, OneIvarPerName
<1>12. InheritedInPlace'
  <2>1. \A d \in Class : super[d] # c
    BY <1>3, LayoutAssumption DEF IInv, SuperInv
  <2> QED
    BY <1>1, <1>2, <1>3, <1>7, <2>1 DEF IInv, TypeOK, InheritedInPlace
<1> QED
  BY <1>5, <1>6, <1>9, <1>10, <1>11, <1>12 DEF IInv

(* The inductive invariant holds in every reachable state.                 *)
THEOREM Invariance == Spec => []IInv
<1>1. IInv /\ [Next]_vars => IInv'
  <2>1. ASSUME IInv, UNCHANGED vars
        PROVE  IInv'
    BY <2>1
    DEF vars, IInv, TypeOK, SuperInv, Fits, NoOverlap, OneIvarPerName,
        InheritedInPlace
  <2> QED
    BY <2>1, AllocateIInv, RegisterIInv, DisposeIInv, DuplicateIInv, AddIvarIInv
    DEF Next
<1> QED
  BY <1>1, InitIInv, PTL DEF Spec

(* The tables of classes, ivars and sizes are well typed whatever sizes and *)
(* alignments are passed: an instance size never leaves the naturals.      *)
THEOREM TypeCorrect == Spec => []TypeOK
  BY Invariance, PTL DEF IInv

(* An instance never has two ivars of one name: class_addIvar also finds   *)
(* the ones a class inherits.                                              *)
THEOREM OneIvarPerNameTheorem == Spec => []OneIvarPerName
  BY Invariance, PTL DEF IInv

(* Every ivar lies within the instance.                                    *)
THEOREM FitsTheorem == Spec => []Fits
  BY Invariance, PTL DEF IInv

(* No two ivars of an instance, inherited ones included, share a byte,     *)
(* although the offset that is recorded is not the rounded one.            *)
THEOREM NoOverlapTheorem == Spec => []NoOverlap
  BY Invariance, PTL DEF IInv

(* A subclass keeps the ivars of its superclass where they are.            *)
THEOREM InheritedInPlaceTheorem == Spec => []InheritedInPlace
  BY Invariance, PTL DEF IInv
=============================================================================
