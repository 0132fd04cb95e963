----------------------------- MODULE IvarLayout -----------------------------
(***************************************************************************)
(* Where class_addIvar (src/src/class.m) puts instance variables, and what *)
(* objc_allocateClassPair, objc_registerClassPair, objc_disposeClassPair   *)
(* and objc_duplicateClass do to the layout of instances.                  *)
(*                                                                         *)
(* The calls are one step each: the documentation asks for external        *)
(* synchronization of runtime registration.  Metaclasses, which have no    *)
(* ivars, and calls that are refused (they change nothing) are left out.   *)
(***************************************************************************)
EXTENDS Integers

CONSTANTS
  Class,
  Root,        (* the compiled class the others are derived from           *)
  RootSize,    (* the instance size of Root                                *)
  Name,
  Type,        (* type encodings                                           *)
  TypeSize,    (* their size and alignment, as the runtime's               *)
  TypeAlign,   (* mulle_objc_signature_supply_size_and_alignment has it    *)
  Size,        (* the sizes and alignments callers pass; 0 asks for the    *)
  Alignment,   (* type's                                                   *)
  NoClass

ASSUME LayoutAssumption ==
  /\ Root \in Class /\ NoClass \notin Class
  /\ RootSize \in Nat
  /\ TypeSize \in [Type -> Nat]
  /\ TypeAlign \in [Type -> 1 .. 255]
  /\ Size \subseteq Nat
  /\ Alignment \subseteq 0 .. 255

(* x & y for a y of 8 bits.                                                *)
BitSet(x, p) == (x \div p) % 2 = 1
BitOf(x, y, p) == IF BitSet(x, p) /\ BitSet(y, p) THEN p ELSE 0
And8(x, y) ==
  BitOf(x, y, 1) + BitOf(x, y, 2) + BitOf(x, y, 4) + BitOf(x, y, 8)
    + BitOf(x, y, 16) + BitOf(x, y, 32) + BitOf(x, y, 64) + BitOf(x, y, 128)

(* Faulty: rounds down.                                                    *)
RoundDown(offset, alignment) == offset - And8(offset, alignment - 1)

(* The code's rounding: with m = alignment - 1, and where offset & m is    *)
(* not zero, (offset + alignment) & ~m.                                    *)
RoundUp(offset, alignment) ==
  IF And8(offset, alignment - 1) = 0
  THEN offset
  ELSE (offset + alignment) - And8(offset + alignment, alignment - 1)

VARIABLES
  state,         (* "none", "allocated" or "registered"                    *)
  super,
  layout,        (* the ivars of an instance, the inherited ones included  *)
  instancesize,
  undersized     (* history: duplicates of classes with ivars, and the     *)
                 (* classes derived from them                              *)

vars == <<state, super, layout, instancesize, undersized>>

Init ==
  /\ state = [c \in Class |-> IF c = Root THEN "registered" ELSE "none"]
  /\ super = [c \in Class |-> NoClass]
  /\ layout = [c \in Class |-> {}]
  /\ instancesize = [c \in Class |-> IF c = Root THEN RootSize ELSE 0]
  /\ undersized = {}

(* objc_allocateClassPair; the new class's instances begin as those of its *)
(* superclass do.                                                          *)
AllocateClassPair(c, s) ==
  /\ state[c] = "none"
  /\ state[s] = "registered"
  /\ state' = [state EXCEPT ![c] = "allocated"]
  /\ super' = [super EXCEPT ![c] = s]
  /\ layout' = [layout EXCEPT ![c] = layout[s]]
  /\ instancesize' = [instancesize EXCEPT ![c] = instancesize[s]]
  /\ undersized' = undersized \cup {d \in {c} : s \in undersized}

RegisterClassPair(c) ==
  /\ state[c] = "allocated"
  /\ state' = [state EXCEPT ![c] = "registered"]
  /\ UNCHANGED <<super, layout, instancesize, undersized>>

Ivar(c, n, offset, size, ty) ==
  [class |-> c, name |-> n, offset |-> offset, size |-> size, type |-> ty]

(* Faulty: inherited ivars are not found.                                  *)
HasOwnIvar(c, n) == \E v \in layout[c] : v.class = c /\ v.name = n

(* class_getInstanceVariable finds the inherited ivars too.                *)
HasIvar(c, n) == \E v \in layout[c] : v.name = n

(* Faulty: class_addIvar does not ask.                                     *)
InNoUniverse(c) == FALSE

(* The universe knows the class by its id.                                 *)
InUniverse(c) == state[c] = "registered"

(* Faulty: the instance grows by the type's size, not by the size passed.  *)
AddIvarTypeSize(c, n, size, alignment, ty) ==
  LET align  == IF alignment = 0 THEN TypeAlign[ty] ELSE alignment
      bytes  == IF size = 0 THEN TypeSize[ty] ELSE size
      offset == RoundUp(instancesize[c], align)
  IN
  /\ ~HasIvar(c, n)
  /\ state[c] # "none" /\ ~InUniverse(c)
  /\ size >= TypeSize[ty]
  /\ layout' = [layout EXCEPT ![c] =
                  @ \cup {Ivar(c, n, instancesize[c], bytes, ty)}]
  /\ instancesize' = [instancesize EXCEPT ![c] = offset + TypeSize[ty]]
  /\ UNCHANGED <<state, super, undersized>>

(* class_addIvar: refused for a name the class has or inherits, for a      *)
(* class the universe knows, and for a size smaller than the type's.  The  *)
(* ivar records the instance size as its offset; the rounded offset only   *)
(* enters the new instance size.                                           *)
AddIvar(c, n, size, alignment, ty) ==
  LET align  == IF alignment = 0 THEN TypeAlign[ty] ELSE alignment
      bytes  == IF size = 0 THEN TypeSize[ty] ELSE size
      offset == RoundUp(instancesize[c], align)
  IN
  /\ ~HasIvar(c, n)
  /\ state[c] # "none" /\ ~InUniverse(c)
  /\ size >= TypeSize[ty]
  /\ layout' = [layout EXCEPT ![c] =
                  @ \cup {Ivar(c, n, instancesize[c], bytes, ty)}]
  /\ instancesize' = [instancesize EXCEPT ![c] = offset + bytes]
  /\ UNCHANGED <<state, super, undersized>>

(* objc_disposeClassPair; that nothing is derived from the class any more  *)
(* is for the caller to see to.                                            *)
DisposeClassPair(c) ==
  /\ state[c] # "none" /\ c # Root
  /\ \A d \in Class : super[d] # c
  /\ state' = [state EXCEPT ![c] = "none"]
  /\ super' = [super EXCEPT ![c] = NoClass]
  /\ layout' = [layout EXCEPT ![c] = {}]
  /\ instancesize' = [instancesize EXCEPT ![c] = 0]
  /\ undersized' = undersized \ {c}

(* What the ivar lists of a derived class hold.                            *)
OwnIvars(c) == layout[c] \ layout[super[c]]

(* objc_duplicateClass copies the ivar lists of the original one by one    *)
(* into a new class of the same superclass.  Only class_addIvar sets the   *)
(* instance size, so the copies lie beyond the new class's instances.      *)
DuplicateClass(c, d) ==
  /\ state[d] = "none"
  /\ state[c] = "registered" /\ super[c] # NoClass
  /\ state' = [state EXCEPT ![d] = "allocated"]
  /\ super' = [super EXCEPT ![d] = super[c]]
  /\ layout' = [layout EXCEPT ![d] =
                  layout[super[c]] \cup {[v EXCEPT !.class = d] : v \in OwnIvars(c)}]
  /\ instancesize' = [instancesize EXCEPT ![d] = instancesize[super[c]]]
  /\ undersized' = IF OwnIvars(c) # {} \/ super[c] \in undersized
                   THEN undersized \cup {d}
                   ELSE undersized

Next ==
  \E c \in Class :
    \/ \E s \in Class : AllocateClassPair(c, s)
    \/ RegisterClassPair(c)
    \/ DisposeClassPair(c)
    \/ \E d \in Class : DuplicateClass(c, d)
    \/ \E n \in Name, size \in Size, alignment \in Alignment, ty \in Type :
         AddIvar(c, n, size, alignment, ty)

Spec == Init /\ [][Next]_vars

-----------------------------------------------------------------------------
IvarRecord == [class : Class, name : Name, offset : Nat, size : Nat, type : Type]

TypeOK ==
  /\ state \in [Class -> {"none", "allocated", "registered"}]
  /\ super \in [Class -> Class \cup {NoClass}]
  /\ layout \in [Class -> SUBSET IvarRecord]
  /\ instancesize \in [Class -> Nat]
  /\ undersized \subseteq Class

(* Every ivar, own or inherited, lies within the instance, whatever sizes  *)
(* and alignments (powers of two or not) callers pass; only duplicates of  *)
(* classes with ivars, and what is derived from them, are too small.       *)
Fits ==
  \A c \in Class \ undersized : \A v \in layout[c] :
    v.offset + v.size <= instancesize[c]

(* No two ivars of an instance share a byte, but for ivars that are added  *)
(* to such a duplicate.                                                    *)
NoOverlap ==
  \A c \in Class \ undersized : \A v, w \in layout[c] :
    v # w => v.offset + v.size <= w.offset \/ w.offset + w.size <= v.offset

(* A name denotes one ivar of a class, inherited ones included.            *)
OneIvarPerName ==
  \A c \in Class : \A v, w \in layout[c] : v.name = w.name => v = w

(* Code compiled for a superclass finds its ivars at the same offsets in   *)
(* instances of a subclass, which may have been derived at any time.       *)
InheritedInPlace ==
  \A c \in Class : super[c] # NoClass =>
    layout[super[c]] \subseteq layout[c] /\ instancesize[super[c]] <= instancesize[c]

(* "We check size and alignment" (and an alignment argument of 0 asks for  *)
(* the type's): the ivar is aligned as its type must be.                   *)
Aligned ==
  \A c \in Class : \A v \in layout[c] : v.offset % TypeAlign[v.type] = 0
=============================================================================
