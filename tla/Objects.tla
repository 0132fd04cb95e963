------------------------------- MODULE Objects -------------------------------
(***************************************************************************)
(* Objects and their memory, as src/src/object.h and src/src/object.m use  *)
(* it: creating, constructing, copying and disposing of instances,         *)
(* object_setClass, and the accesses to instance variables and to the      *)
(* indexed ivars behind them.                                              *)
(*                                                                         *)
(* Everything about an object's layout comes from the class its isa points *)
(* to.  The isa is read at one moment and the memory touched at a later    *)
(* one, and object_setClass ("not atomic in mulle-objc!") may come in      *)
(* between.  Offsets count from the object; the header is in front of it.  *)
(***************************************************************************)
EXTENDS Naturals, FiniteSets

CONSTANTS
  Thread,       (* the threads of the program                              *)
  Object,       (* addresses objects can have                              *)
  Class,        (* registered classes                                      *)
  Name,         (* names of instance variables, all of them pointers       *)
  Offset,       (* per class: the offsets of its ivars, by name            *)
  Size,         (* per class: the instance size                            *)
  Header,       (* the size of an object's header                          *)
  Word,         (* the size of a pointer                                   *)
  Extra,        (* the numbers of extra bytes callers ask for              *)
  NoClass,      (* there is no object at the address                       *)
  NoFrame       (* a thread outside of the API has no call frame           *)

ASSUME LayoutAssumption ==
  /\ Size \in [Class -> Nat]
  /\ DOMAIN Offset = Class
  /\ \A c \in Class :
       /\ DOMAIN Offset[c] \subseteq Name
       /\ \A n \in DOMAIN Offset[c] :
            Offset[c][n] \in Nat /\ Offset[c][n] + Word <= Size[c]

ASSUME NumbersAssumption ==
  /\ Header \in Nat /\ Word \in Nat \ {0} /\ Extra \subseteq Nat

ASSUME SentinelAssumption == NoClass \notin Class

VARIABLES
  isa,          (* the class of each object, NoClass for a free address    *)
  block,        (* bytes from the object to the end of its memory block    *)
  extra,        (* the extra bytes the caller has asked for                *)
  pc,           (* where each thread is                                    *)
  frame         (* arguments and locals of each thread's call              *)

memory == <<block, extra>>
vars == <<isa, memory, pc, frame>>

-----------------------------------------------------------------------------
Live == {o \in Object : isa[o] # NoClass}

(* Faulty: the instance without its header.                                *)
SizeWithoutHeader(c) == Size[c]

(* "this will be with header": what a caller of objc_constructInstance     *)
(* allocates for an instance of c.                                         *)
class_getInstanceSize(c) == Header + Size[c]

(* Faulty: the pointer is rounded down.                                    *)
RoundDown(p) == (p \div Word) * Word

(* ( p + (Word - 1)) & ~(Word - 1), for a word that is a power of two.     *)
RoundUp(p) == ((p + Word - 1) \div Word) * Word

(* Where the indexed ivars of an object begin: the first word boundary     *)
(* behind an instance of the class it has.                                 *)
object_getIndexedIvars(c) == RoundUp(Size[c])

object_getClass(o) == isa[o]

ivar_getOffset(c, n) == Offset[c][n]

(* A frame is about an object (in a copy: from and to) and has read a      *)
(* class; the access it will make is to len bytes at offset at.            *)
Call(o, dup, c, at, len) ==
  [obj |-> o, dup |-> dup, cls |-> c, at |-> at, len |-> len]

Goto(t, label, f) ==
  /\ pc' = [pc EXCEPT ![t] = label]
  /\ frame' = [frame EXCEPT ![t] = f]

Uses(t, o) == pc[t] # "idle" /\ o \in {frame[t].obj, frame[t].dup}

Init ==
  /\ isa = [o \in Object |-> NoClass]
  /\ block = [o \in Object |-> 0]
  /\ extra = [o \in Object |-> 0]
  /\ pc = [t \in Thread |-> "idle"]
  /\ frame = [t \in Thread |-> NoFrame]

(* A block of n bytes at a free address, and the header set up for c.      *)
NewObject(o, c, n, x) ==
  /\ o \notin Live
  /\ isa' = [isa EXCEPT ![o] = c]
  /\ block' = [block EXCEPT ![o] = n]
  /\ extra' = [extra EXCEPT ![o] = x]

class_createInstance(t, o, c, x) ==
  /\ pc[t] = "idle"
  /\ NewObject(o, c, Size[c] + x, x)
  /\ UNCHANGED <<pc, frame>>

(* The caller's bytes are as many as it was told, and its extra ones.      *)
objc_constructInstance(t, o, c, x) ==
  /\ pc[t] = "idle"
  /\ NewObject(o, c, class_getInstanceSize(c) + x - Header, x)
  /\ UNCHANGED <<pc, frame>>

(* object_dispose: destructing does nothing, then the memory is freed.     *)
(* Nobody may be using the object.                                         *)
object_dispose(t, o) ==
  /\ pc[t] = "idle" /\ o \in Live
  /\ \A u \in Thread : ~Uses(u, o)
  /\ isa' = [isa EXCEPT ![o] = NoClass]
  /\ block' = [block EXCEPT ![o] = 0]
  /\ extra' = [extra EXCEPT ![o] = 0]
  /\ UNCHANGED <<pc, frame>>

-----------------------------------------------------------------------------
(* object_copy: the isa is read once, and decides how much is allocated and *)
(* how much is copied.  Any number of extra bytes may be asked for.        *)

BeginCopy(t, o, x) ==
  /\ pc[t] = "idle" /\ o \in Live
  /\ x \in Extra
  /\ Goto(t, "copyAlloc", Call(o, o, object_getClass(o), 0, x))
  /\ UNCHANGED <<isa, memory>>

(* Faulty: the isa is read again for the allocation.                       *)
AllocateCopyRereading(t, dup) ==
  LET f == frame[t] IN
  /\ pc[t] = "copyAlloc"
  /\ NewObject(dup, isa[f.obj], Size[isa[f.obj]] + f.len, f.len)
  /\ Goto(t, "copyBytes", [f EXCEPT !.dup = dup, !.len = Size[f.cls] + f.len])

AllocateCopy(t, dup) ==
  LET f == frame[t] IN
  /\ pc[t] = "copyAlloc"
  /\ NewObject(dup, f.cls, Size[f.cls] + f.len, f.len)
  /\ Goto(t, "copyBytes", [f EXCEPT !.dup = dup, !.len = Size[f.cls] + f.len])

(* Without memory there is no copy.                                        *)
NoCopy(t) ==
  /\ pc[t] = "copyAlloc"
  /\ Goto(t, "idle", NoFrame)
  /\ UNCHANGED <<isa, memory>>

-----------------------------------------------------------------------------
(* object_setClass: the old class is read, then the new one written.  The  *)
(* documentation asks for external synchronization: one thread at a time.  *)
(* A caller changes to a class whose instances are not larger than what    *)
(* the object has without its extra bytes.                                 *)

BeginSetClass(t, o, c) ==
  /\ pc[t] = "idle" /\ o \in Live
  /\ Size[c] + extra[o] <= block[o]
  /\ \A u \in Thread : ~(pc[u] = "setClass" /\ Uses(u, o))
  /\ Goto(t, "setClass", Call(o, o, c, 0, 0))
  /\ UNCHANGED <<isa, memory>>

SetIsa(t) ==
  /\ pc[t] = "setClass"
  /\ isa' = [isa EXCEPT ![frame[t].obj] = frame[t].cls]
  /\ Goto(t, "idle", NoFrame)
  /\ UNCHANGED memory

-----------------------------------------------------------------------------
(* Accesses: what is looked up through the isa, then the memory.           *)

(* object_getInstanceVariable and object_setInstanceVariable: the ivar of  *)
(* that name in the object's class; no such ivar and, when setting, a null *)
(* value leave the memory alone, which is the same as not to have begun.   *)
BeginIvar(t, o, n) ==
  /\ pc[t] = "idle" /\ o \in Live
  /\ LET c == object_getClass(o) IN
       /\ n \in DOMAIN Offset[c]
       /\ Goto(t, "ivar", Call(o, o, c, ivar_getOffset(c, n), Word))
  /\ UNCHANGED <<isa, memory>>

(* A caller that asks for the indexed ivars and uses a word of them.       *)
BeginIndexed(t, o, i) ==
  /\ pc[t] = "idle" /\ o \in Live
  /\ i \in Nat /\ i + Word <= extra[o]
  /\ LET c == object_getClass(o) IN
       Goto(t, "indexed", Call(o, o, c, object_getIndexedIvars(c) + i, Word))
  /\ UNCHANGED <<isa, memory>>

(* The load, the store or the memcpy.                                      *)
Access(t) ==
  /\ pc[t] \in {"ivar", "indexed", "copyBytes"}
  /\ Goto(t, "idle", NoFrame)
  /\ UNCHANGED <<isa, memory>>

Next ==
  \E t \in Thread :
    \/ \E o \in Object, c \in Class, x \in Extra :
         class_createInstance(t, o, c, x) \/ objc_constructInstance(t, o, c, x)
    \/ \E o \in Object : object_dispose(t, o) \/ AllocateCopy(t, o)
    \/ \E o \in Object, x \in Extra : BeginCopy(t, o, x) \/ BeginIndexed(t, o, x)
    \/ \E o \in Object, c \in Class : BeginSetClass(t, o, c)
    \/ \E o \in Object, n \in Name : BeginIvar(t, o, n)
    \/ NoCopy(t) \/ SetIsa(t)
    \/ Access(t)

Spec == Init /\ [][Next]_vars

-----------------------------------------------------------------------------
(* Properties.                                                             *)

Label == {"idle", "copyAlloc", "copyBytes", "setClass", "ivar", "indexed"}

Frame == [obj : Object, dup : Object, cls : Class, at : Nat, len : Nat]

(* The state has its types; a free address has no memory.                  *)
TypeOK ==
  /\ isa \in [Object -> Class \cup {NoClass}]
  /\ block \in [Object -> Nat]
  /\ extra \in [Object -> Nat]
  /\ \A o \in Object : isa[o] = NoClass => block[o] = 0 /\ extra[o] = 0
  /\ pc \in [Thread -> Label]
  /\ frame \in [Thread -> Frame \cup {NoFrame}]

(* Every live object has room for an instance of its class and for the     *)
(* extra bytes it was made with, also the copy of an object whose class    *)
(* was changed while it was copied.                                        *)
RoomForClass == \A o \in Live : Size[isa[o]] + extra[o] <= block[o]

(* An access to an instance variable that was looked up by name stays      *)
(* within the object's block and off its extra bytes, whatever class the   *)
(* object has by the time it is made.                                      *)
IvarsWithin ==
  \A t \in Thread : pc[t] = "ivar" =>
    /\ frame[t].obj \in Live
    /\ frame[t].at + frame[t].len + extra[frame[t].obj] <= block[frame[t].obj]

(* object_copy writes within the copy, and reads within the original when  *)
(* no more extra bytes are asked for than that has; otherwise it reads     *)
(* beyond the original, by no more than the bytes that are lacking.  Both  *)
(* hold although object_setClass may come between its steps.               *)
CopyWithin ==
  \A t \in Thread : pc[t] = "copyBytes" =>
    LET f == frame[t] IN
    /\ f.len <= block[f.dup]
    /\ f.len + extra[f.obj] <= block[f.obj] + extra[f.dup]

(* The indexed ivars begin on a word and behind the instance variables of  *)
(* the class they were asked for, whatever its size is.  A caller that uses *)
(* all the extra bytes it has asked for, from where object_getIndexedIvars *)
(* points, stays within the block if instances are a whole number of words, *)
(* and is less than a word beyond it otherwise: the rounding is not part of *)
(* what was allocated.                                                     *)
IndexedWithin ==
  \A t \in Thread : pc[t] = "indexed" =>
    /\ object_getIndexedIvars(frame[t].cls) % Word = 0
    /\ Size[frame[t].cls] <= frame[t].at
    /\ frame[t].at + frame[t].len <=
         block[frame[t].obj] + (IF Size[frame[t].cls] % Word = 0 THEN 0
                                ELSE Word - 1)
=============================================================================
