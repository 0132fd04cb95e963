---------------------------- MODULE ObjectsProofs ----------------------------
(***************************************************************************)
(* Theorems about objects and their memory, for any number of threads and  *)
(* objects, any classes, and any size of a word.                           *)
(***************************************************************************)
EXTENDS Objects, TLAPS

(* Division leaves less than the divisor.                                  *)
LEMMA Division ==
  ASSUME NEW p \in Nat, NEW w \in Nat \ {0}
  PROVE  /\ p \div w \in Nat
         /\ (p \div w) * w <= p /\ p < (p \div w) * w + w
<1>1. p = w * (p \div w) + (p % w) /\ p % w \in 0 .. (w - 1)
  OBVIOUS
<1>2. p \div w \in Nat
  OBVIOUS
<1> QED
  BY <1>1, <1>2

LEMMA Multiple ==
  ASSUME NEW q \in Nat, NEW w \in Nat \ {0}
  PROVE  (q * w) % w = 0
  OBVIOUS

(* Rounding up goes to a word boundary, by less than a word.               *)
LEMMA RoundUpBound ==
  ASSUME NEW p \in Nat
  PROVE  /\ RoundUp(p) \in Nat /\ RoundUp(p) % Word = 0
         /\ p <= RoundUp(p) /\ RoundUp(p) < p + Word
         /\ p % Word = 0 => RoundUp(p) = p
<1> DEFINE q == (p + Word - 1) \div Word
           k == p \div Word
<1>1. Word \in Nat \ {0} /\ p + Word - 1 \in Nat
  BY NumbersAssumption
<1>2. q \in Nat /\ q * Word <= p + Word - 1 /\ p + Word - 1 < q * Word + Word
  BY <1>1, Division
<1>3. k \in Nat /\ (p % Word = 0 => p = k * Word)
  BY <1>1
<1> HIDE DEF q, k
<1>4. q * Word \in Nat /\ (q * Word) % Word = 0
  BY <1>1, <1>2, Multiple
<1>5. p <= q * Word /\ q * Word < p + Word
  BY <1>1, <1>2, <1>4
<1>6. \A a, b \in Nat : a < b => a * Word + Word <= b * Word
  BY <1>1
<1>7. ASSUME p % Word = 0
      PROVE  q * Word = p
  <2>1. p = k * Word
    BY <1>3, <1>7
  <2>2. ~(k < q) /\ ~(q < k)
    BY <1>1, <1>2, <1>3, <1>4, <1>5, <1>6, <2>1
  <2> QED
    BY <1>2, <1>3, <2>1, <2>2
<1>8. RoundUp(p) = q * Word
  BY DEF RoundUp, q
<1> QED
  BY <1>4, <1>5, <1>7, <1>8

-----------------------------------------------------------------------------
(* What a thread knows between its look at the isa and its access: the     *)
(* object stays alive, so its block and extra bytes stay what they were.   *)
CallOK(t) ==
  LET f == frame[t] IN
  /\ f \in Frame /\ f.obj \in Live /\ f.dup \in Live
  /\ pc[t] = "copyAlloc" => Size[f.cls] + extra[f.obj] <= block[f.obj]
  /\ pc[t] = "copyBytes" =>
       /\ f.len <= block[f.dup]
       /\ f.len + extra[f.obj] <= block[f.obj] + extra[f.dup]
  /\ pc[t] = "setClass" => Size[f.cls] + extra[f.obj] <= block[f.obj]
  /\ pc[t] = "ivar" => f.at + f.len + extra[f.obj] <= block[f.obj]
  /\ pc[t] = "indexed" =>
       /\ Size[f.cls] + extra[f.obj] <= block[f.obj]
       /\ f.len = Word
       /\ RoundUp(Size[f.cls]) <= f.at
       /\ f.at + Word <= RoundUp(Size[f.cls]) + extra[f.obj]

CallInv == \A t \in Thread : pc[t] # "idle" => CallOK(t)

IInv == TypeOK /\ RoomForClass /\ CallInv

LEMMA InitIInv == Init => IInv
  BY DEF Init, IInv, TypeOK, RoomForClass, Live, CallInv, Label

(* What a thread knows survives a step that keeps its objects' memory.     *)
LEMMA CallKept ==
  ASSUME IInv, NEW t \in Thread, CallOK(t),
         frame'[t] = frame[t], pc'[t] = pc[t],
         \A o \in {frame[t].obj, frame[t].dup} :
           o \in Live' /\ block'[o] = block[o] /\ extra'[o] = extra[o]
  PROVE  CallOK(t)'
  BY DEF CallOK

(* A new object takes an address nobody uses.                              *)
LEMMA NewObjectIInv ==
  ASSUME IInv, NEW o \in Object, NEW c \in Class, NEW n \in Nat, NEW x \in Nat,
         Size[c] + x <= n, NewObject(o, c, n, x)
  PROVE  /\ isa' \in [Object -> Class \cup {NoClass}]
         /\ block' \in [Object -> Nat] /\ extra' \in [Object -> Nat]
         /\ \A p \in Object : isa'[p] = NoClass => block'[p] = 0 /\ extra'[p] = 0
         /\ RoomForClass'
         /\ Live' = Live \cup {o} /\ o \notin Live
         /\ block'[o] = n /\ extra'[o] = x
         /\ \A p \in Live : block'[p] = block[p] /\ extra'[p] = extra[p]
<1> USE SentinelAssumption DEF IInv, TypeOK, NewObject
<1>1. /\ isa' \in [Object -> Class \cup {NoClass}]
      /\ block' \in [Object -> Nat] /\ extra' \in [Object -> Nat]
      /\ \A p \in Object : isa'[p] = NoClass => block'[p] = 0 /\ extra'[p] = 0
  OBVIOUS
<1>2. Live' = Live \cup {o} /\ o \notin Live /\ block'[o] = n /\ extra'[o] = x
  BY DEF Live
<1>3. \A p \in Live : /\ block'[p] = block[p] /\ extra'[p] = extra[p]
                      /\ isa'[p] = isa[p]
  BY <1>2 DEF Live
<1>4. RoomForClass'
  BY <1>2, <1>3 DEF RoomForClass, Live
<1> QED
  BY <1>1, <1>2, <1>3, <1>4

LEMMA CreateIInv ==
  ASSUME IInv, NEW t \in Thread, NEW o \in Object, NEW c \in Class,
         NEW x \in Extra,
         class_createInstance(t, o, c, x) \/ objc_constructInstance(t, o, c, x)
  PROVE  IInv'
<1>1. /\ NewObject(o, c, Size[c] + x, x) /\ Size[c] \in Nat /\ x \in Nat
      /\ pc' = pc /\ frame' = frame
  BY LayoutAssumption, NumbersAssumption
  DEF class_createInstance, objc_constructInstance, class_getInstanceSize
<1>2. /\ TypeOK' /\ RoomForClass' /\ Live \subseteq Live'
      /\ \A p \in Live : block'[p] = block[p] /\ extra'[p] = extra[p]
  <2>1. Size[c] + x \in Nat /\ Size[c] + x <= Size[c] + x
    BY <1>1
  <2> QED
    BY <1>1, <2>1, NewObjectIInv DEF IInv, TypeOK
<1>3. CallInv'
  BY <1>1, <1>2, CallKept DEF IInv, CallInv, CallOK
<1> QED
  BY <1>2, <1>3 DEF IInv

LEMMA DisposeIInv ==
  ASSUME IInv, NEW t \in Thread, NEW o \in Object, object_dispose(t, o)
  PROVE  IInv'
<1>1. TypeOK'
  BY DEF IInv, TypeOK, object_dispose
<1>2. /\ Live' = Live \ {o} /\ pc' = pc /\ frame' = frame
      /\ \A p \in Live' : /\ block'[p] = block[p] /\ extra'[p] = extra[p]
                          /\ isa'[p] = isa[p]
      /\ \A u \in Thread : pc[u] # "idle" => o \notin {frame[u].obj, frame[u].dup}
  BY DEF IInv, TypeOK, object_dispose, Live, Uses
<1>3. RoomForClass'
  BY <1>2 DEF IInv, RoomForClass
<1>4. CallInv'
  <2> SUFFICES ASSUME NEW u \in Thread, pc'[u] # "idle" PROVE CallOK(u)'
    BY DEF CallInv
  <2>1. CallOK(u) /\ frame'[u] = frame[u] /\ pc'[u] = pc[u]
    BY <1>2 DEF IInv, CallInv
  <2>2. \A p \in {frame[u].obj, frame[u].dup} : p \in Live'
    BY <1>2, <2>1 DEF CallOK
  <2> QED
    BY <1>2, <2>1, <2>2, CallKept
<1> QED
  BY <1>1, <1>3, <1>4 DEF IInv

(* A thread moves and the memory stays as it is.                           *)
LEMMA MoveIInv ==
  ASSUME IInv, NEW t \in Thread, NEW label \in Label, NEW f \in Frame \cup {NoFrame},
         Goto(t, label, f), isa' = isa, block' = block, extra' = extra,
         label # "idle" => CallOK(t)'
  PROVE  IInv'
<1>1. /\ pc'[t] = label /\ frame'[t] = f
      /\ \A u \in Thread \ {t} : pc'[u] = pc[u] /\ frame'[u] = frame[u]
  BY DEF IInv, TypeOK, Goto
<1>2. TypeOK' /\ RoomForClass' /\ Live' = Live
  BY DEF IInv, TypeOK, Goto, RoomForClass, Live
<1>3. ASSUME NEW u \in Thread, pc'[u] # "idle"
      PROVE  CallOK(u)'
  <2>1. CASE u = t
    BY <1>1, <1>3, <2>1
  <2>2. CASE u # t
    <3>1. CallOK(u) /\ frame'[u] = frame[u] /\ pc'[u] = pc[u]
      BY <1>1, <1>3, <2>2 DEF IInv, CallInv
    <3>2. \A o \in {frame[u].obj, frame[u].dup} :
            o \in Live' /\ block'[o] = block[o] /\ extra'[o] = extra[o]
      BY <1>2, <3>1 DEF CallOK
    <3> QED
      BY <3>1, <3>2, CallKept
  <2> QED
    BY <2>1, <2>2
<1> QED
  BY <1>2, <1>3 DEF IInv, CallInv

(* What the first look at an object finds.                                 *)
LEMMA LiveObject ==
  ASSUME IInv, NEW o \in Live
  PROVE  /\ o \in Object /\ isa[o] \in Class /\ Size[isa[o]] \in Nat
         /\ extra[o] \in Nat /\ block[o] \in Nat
         /\ Size[isa[o]] + extra[o] <= block[o]
  BY LayoutAssumption DEF IInv, TypeOK, RoomForClass, Live

LEMMA BeginIInv ==
  ASSUME IInv, NEW t \in Thread, NEW o \in Object
  PROVE  /\ \A x \in Extra : BeginCopy(t, o, x) => IInv'
         /\ \A x \in Extra : BeginIndexed(t, o, x) => IInv'
         /\ \A c \in Class : BeginSetClass(t, o, c) => IInv'
         /\ \A n \in Name : BeginIvar(t, o, n) => IInv'
<1> USE DEF Call, Label, Frame
<1>1. ASSUME NEW x \in Extra, BeginCopy(t, o, x) PROVE IInv'
  <2> DEFINE f == Call(o, o, isa[o], 0, x)
  <2>1. /\ o \in Live /\ x \in Nat /\ Goto(t, "copyAlloc", f)
        /\ isa' = isa /\ block' = block /\ extra' = extra
    BY <1>1, NumbersAssumption DEF BeginCopy, memory, object_getClass
  <2>2. f \in Frame
    BY <2>1, LiveObject
  <2>3. CallOK(t)'
    BY <2>1, <2>2, LiveObject DEF Goto, CallOK, Live, IInv, TypeOK
  <2> QED
    BY <2>1, <2>2, <2>3, MoveIInv
<1>2. ASSUME NEW x \in Extra, BeginIndexed(t, o, x) PROVE IInv'
  <2> DEFINE f == Call(o, o, isa[o], RoundUp(Size[isa[o]]) + x, Word)
  <2>1. /\ o \in Live /\ x \in Nat /\ x + Word <= extra[o] /\ Goto(t, "indexed", f)
        /\ isa' = isa /\ block' = block /\ extra' = extra
    BY <1>2 DEF BeginIndexed, memory, object_getClass, object_getIndexedIvars
  <2>2. RoundUp(Size[isa[o]]) \in Nat /\ Word \in Nat
    BY <2>1, LiveObject, RoundUpBound, NumbersAssumption
  <2>3. f \in Frame
    BY <2>1, <2>2, LiveObject
  <2>4. /\ f.obj = o /\ f.dup = o /\ f.cls = isa[o] /\ f.len = Word
        /\ f.at = RoundUp(Size[isa[o]]) + x
    OBVIOUS
  <2> HIDE DEF f
  <2>5. CallOK(t)'
    BY <2>1, <2>2, <2>3, <2>4, LiveObject DEF Goto, CallOK, Live, IInv, TypeOK
  <2> QED
    BY <2>1, <2>3, <2>5, MoveIInv
<1>3. ASSUME NEW c \in Class, BeginSetClass(t, o, c) PROVE IInv'
  <2> DEFINE f == Call(o, o, c, 0, 0)
  <2>1. /\ o \in Live /\ Size[c] + extra[o] <= block[o] /\ Goto(t, "setClass", f)
        /\ isa' = isa /\ block' = block /\ extra' = extra
    BY <1>3 DEF BeginSetClass, memory
  <2>2. f \in Frame
    OBVIOUS
  <2>3. CallOK(t)'
    BY <2>1, <2>2 DEF Goto, CallOK, Live, IInv, TypeOK
  <2> QED
    BY <2>1, <2>2, <2>3, MoveIInv
<1>4. ASSUME NEW n \in Name, BeginIvar(t, o, n) PROVE IInv'
  <2> DEFINE f == Call(o, o, isa[o], Offset[isa[o]][n], Word)
  <2>1. /\ o \in Live /\ n \in DOMAIN Offset[isa[o]] /\ Goto(t, "ivar", f)
        /\ isa' = isa /\ block' = block /\ extra' = extra
    BY <1>4 DEF BeginIvar, memory, object_getClass, ivar_getOffset
  <2>2. /\ Offset[isa[o]][n] \in Nat /\ Offset[isa[o]][n] + Word <= Size[isa[o]]
        /\ Word \in Nat
    BY <2>1, LiveObject, LayoutAssumption, NumbersAssumption
  <2>3. f \in Frame
    BY <2>1, <2>2, LiveObject
  <2>4. CallOK(t)'
    BY <2>1, <2>2, <2>3, LiveObject DEF Goto, CallOK, Live, IInv, TypeOK
  <2> QED
    BY <2>1, <2>3, <2>4, MoveIInv
<1> QED
  BY <1>1, <1>2, <1>3, <1>4

(* The class that decides how much is allocated and copied is the one that *)
(* was read, whatever class the object has by now.                         *)
LEMMA AllocateCopyIInv ==
  ASSUME IInv, NEW t \in Thread, NEW d \in Object, AllocateCopy(t, d)
  PROVE  IInv'
<1> DEFINE f == frame[t]
           n == Size[f.cls] + f.len
           g == [f EXCEPT !.dup = d, !.len = n]
<1>1. /\ pc[t] = "copyAlloc" /\ NewObject(d, f.cls, n, f.len)
      /\ Goto(t, "copyBytes", g)
  BY DEF AllocateCopy
<1>2. /\ f \in Frame /\ f.obj \in Live
      /\ Size[f.cls] + extra[f.obj] <= block[f.obj]
      /\ extra[f.obj] \in Nat /\ block[f.obj] \in Nat
      /\ f.cls \in Class /\ Size[f.cls] \in Nat /\ f.len \in Nat /\ n \in Nat
  BY <1>1, LayoutAssumption DEF IInv, TypeOK, CallInv, CallOK, Frame, Live
<1>3. /\ g \in Frame /\ g.obj = f.obj /\ g.dup = d /\ g.len = n
  BY <1>2 DEF Frame
<1>4. /\ pc'[t] = "copyBytes" /\ frame'[t] = g
      /\ \A u \in Thread \ {t} : pc'[u] = pc[u] /\ frame'[u] = frame[u]
      /\ pc' \in [Thread -> Label] /\ frame' \in [Thread -> Frame \cup {NoFrame}]
  BY <1>1, <1>3 DEF Goto, IInv, TypeOK, Label
<1> HIDE DEF f, n, g
<1>5. /\ n <= n /\ Size[f.cls] + f.len <= n
      /\ n + extra[f.obj] <= block[f.obj] + f.len
  BY <1>2 DEF n
<1>6. /\ isa' \in [Object -> Class \cup {NoClass}]
      /\ block' \in [Object -> Nat] /\ extra' \in [Object -> Nat]
      /\ \A p \in Object : isa'[p] = NoClass => block'[p] = 0 /\ extra'[p] = 0
      /\ RoomForClass'
      /\ Live' = Live \cup {d} /\ block'[d] = n /\ extra'[d] = f.len
      /\ \A p \in Live : block'[p] = block[p] /\ extra'[p] = extra[p]
  BY <1>1, <1>2, <1>5, NewObjectIInv
<1>7. TypeOK'
  BY <1>4, <1>6 DEF IInv, TypeOK
<1>8. CallInv'
  <2>1. CallOK(t)'
    BY <1>2, <1>3, <1>4, <1>5, <1>6 DEF CallOK
  <2>2. ASSUME NEW u \in Thread \ {t}, pc'[u] # "idle" PROVE CallOK(u)'
    BY <1>4, <1>6, <2>2, CallKept DEF IInv, CallInv, CallOK
  <2> QED
    BY <2>1, <2>2 DEF CallInv
<1> QED
  BY <1>6, <1>7, <1>8 DEF IInv

(* The new class has room in the block, as it had when it was asked for.   *)
LEMMA SetIsaIInv ==
  ASSUME IInv, NEW t \in Thread, SetIsa(t)
  PROVE  IInv'
<1> DEFINE f == frame[t]
<1>1. /\ pc[t] = "setClass" /\ isa' = [isa EXCEPT ![f.obj] = f.cls]
      /\ pc' = [pc EXCEPT ![t] = "idle"] /\ frame' = [frame EXCEPT ![t] = NoFrame]
      /\ block' = block /\ extra' = extra
  BY DEF SetIsa, Goto, memory
<1>2. /\ f.obj \in Live /\ f.cls \in Class
      /\ Size[f.cls] + extra[f.obj] <= block[f.obj]
  BY <1>1 DEF IInv, CallInv, CallOK, Frame
<1> HIDE DEF f
<1>3. TypeOK' /\ Live' = Live
  BY <1>1, <1>2, SentinelAssumption DEF IInv, TypeOK, Live, Label
<1>4. RoomForClass'
  BY <1>1, <1>2, <1>3 DEF IInv, TypeOK, RoomForClass, Live
<1>5. CallInv'
  <2> SUFFICES ASSUME NEW u \in Thread, pc'[u] # "idle" PROVE CallOK(u)'
    BY DEF CallInv
  <2>1. CallOK(u) /\ frame'[u] = frame[u] /\ pc'[u] = pc[u]
    BY <1>1 DEF IInv, TypeOK, CallInv
  <2> QED
    BY <1>1, <1>3, <2>1, CallKept DEF CallOK
<1> QED
  BY <1>3, <1>4, <1>5 DEF IInv

-----------------------------------------------------------------------------
(* The inductive invariant holds in every reachable state.                 *)
THEOREM Invariance == Spec => []IInv
<1>1. IInv /\ [Next]_vars => IInv'
  <2>1. ASSUME IInv, UNCHANGED vars
        PROVE  IInv'
    BY <2>1 DEF vars, memory, IInv, TypeOK, RoomForClass, Live, CallInv, CallOK
  <2>2. ASSUME IInv, NEW t \in Thread, NoCopy(t) \/ Access(t)
        PROVE  IInv'
    BY <2>2, MoveIInv DEF NoCopy, Access, memory, Label
  <2> QED
    BY <2>1, <2>2, CreateIInv, DisposeIInv, BeginIInv, AllocateCopyIInv,
       SetIsaIInv
    DEF Next
<1> QED
  BY <1>1, InitIInv, PTL DEF Spec

(* Objects, blocks and the frames of calls in flight are well typed; an    *)
(* object without a block has no isa anybody could follow.                 *)
THEOREM TypeCorrect == Spec => []TypeOK
  BY Invariance, PTL DEF IInv

(* Every live object has room for an instance of its class and its extra   *)
(* bytes.                                                                  *)
THEOREM RoomTheorem == Spec => []RoomForClass
  BY Invariance, PTL DEF IInv

(* An access to an instance variable stays within the block.               *)
THEOREM IvarsTheorem == Spec => []IvarsWithin
<1>1. IInv => IvarsWithin
  BY DEF IInv, CallInv, CallOK, IvarsWithin
<1> QED
  BY <1>1, Invariance, PTL

(* A copy writes within the copy and reads beyond the original by no more  *)
(* than the extra bytes that were asked for and that it lacks.             *)
THEOREM CopyTheorem == Spec => []CopyWithin
<1>1. IInv => CopyWithin
  BY DEF IInv, CallInv, CallOK, CopyWithin
<1> QED
  BY <1>1, Invariance, PTL

(* The indexed ivars begin on a word, behind the instance, and end less    *)
(* than a word beyond the block.                                           *)
THEOREM IndexedTheorem == Spec => []IndexedWithin
<1>1. IInv => IndexedWithin
  <2> SUFFICES ASSUME IInv, NEW t \in Thread, pc[t] = "indexed"
               PROVE  /\ object_getIndexedIvars(frame[t].cls) % Word = 0
                      /\ Size[frame[t].cls] <= frame[t].at
                      /\ frame[t].at + frame[t].len <=
                           block[frame[t].obj]
                             + (IF Size[frame[t].cls] % Word = 0 THEN 0
                                ELSE Word - 1)
    BY DEF IndexedWithin
  <2> DEFINE f == frame[t]
             s == Size[f.cls]
             x == extra[f.obj]
             b == block[f.obj]
  <2>1. /\ f \in Frame /\ f.obj \in Object /\ s + x <= b /\ f.len = Word
        /\ RoundUp(s) <= f.at /\ f.at + Word <= RoundUp(s) + x
    BY DEF IInv, CallInv, CallOK, Live
  <2>2. s \in Nat /\ x \in Nat /\ b \in Nat /\ f.at \in Nat /\ Word \in Nat \ {0}
    BY <2>1, LayoutAssumption, NumbersAssumption DEF IInv, TypeOK, Frame
  <2> HIDE DEF f, s, x, b
  <2>3. /\ RoundUp(s) \in Nat /\ RoundUp(s) % Word = 0
        /\ s <= RoundUp(s) /\ RoundUp(s) <= s + (Word - 1)
        /\ s % Word = 0 => RoundUp(s) = s
    BY <2>2, RoundUpBound
  <2>4. /\ s <= f.at
        /\ f.at + f.len <= b + (IF s % Word = 0 THEN 0 ELSE Word - 1)
    BY <2>1, <2>2, <2>3
  <2> QED
    BY <2>3, <2>4 DEF f, s, x, b, object_getIndexedIvars
<1> QED
  BY <1>1, Invariance, PTL
=============================================================================
