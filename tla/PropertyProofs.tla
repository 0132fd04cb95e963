--------------------------- MODULE PropertyProofs ---------------------------
(***************************************************************************)
(* Theorems about properties.  About the accessors, for any number of      *)
(* threads, ivars and objects: the references are accounted for, and what  *)
(* is stored is what the setter's name says.  About the attributes, for    *)
(* every string and every list of attributes callers may pass: the copy    *)
(* stays within its block, what is written is read back, and a search      *)
(* finds the first attribute of its name.                                  *)
(***************************************************************************)
EXTENDS PropertyAccessors, PropertyAttributes, FiniteSetTheorems,
        SequenceTheorems, WellFoundedInduction, TLAPS

-----------------------------------------------------------------------------
(* The accessors.                                                          *)

(* The switch without breaks has one outcome.                              *)
LEMMA SwitchMutable ==
  ASSUME NEW k \in 0 .. 2
  PROVE  Switch(k) = MutableCopy
<1> DEFINE entry == CASE k = 0 -> 1 [] k = 2 -> 3 [] OTHER -> 2
<1>1. entry \in 1 .. 3
  OBVIOUS
<1>2. \A e \in 1 .. 3 : Max(e .. 3) = 3
  <2> SUFFICES ASSUME NEW e \in 1 .. 3
               PROVE  Max(e .. 3) = 3
    OBVIOUS
  <2>1. 3 \in e .. 3 /\ \A y \in e .. 3 : 3 >= y
    OBVIOUS
  <2>2. \A x \in e .. 3 : (\A y \in e .. 3 : x >= y) => x = 3
    BY <2>1
  <2> QED
    BY <2>1, <2>2 DEF Max
<1>3. Max(entry .. 3) = 3
  BY <1>1, <1>2
<1> QED
  BY <1>3 DEF Switch, MutableCopy

(* A strategy is atomic where the setter is.                               *)
LEMMA StrategyType ==
  ASSUME NEW fn \in Setter, NEW atomic \in BOOLEAN, NEW k \in 0 .. 2
  PROVE  /\ Strategy(fn, atomic, k) \in
              [take : {Plain, Copying, MutableCopy}, atomic : BOOLEAN]
         /\ Strategy(fn, atomic, k).atomic <=> Atomic(fn, atomic)
         /\ Strategy(fn, atomic, k).take =
              CASE fn = "objc_setProperty" -> MutableCopy
                [] fn \in {"objc_setProperty_nonatomic", "objc_setProperty_atomic"} -> Plain
                [] OTHER -> Copying
  BY SwitchMutable DEF Strategy, Setter, Atomic, Plain, Copying, MutableCopy

-----------------------------------------------------------------------------
FrameInv ==
  \A t \in Thread : pc[t] # "idle" =>
    /\ frame[t] \in Frame
    /\ frame[t].strategy =
         Strategy(frame[t].fn, frame[t].atomic, frame[t].shouldCopy)

(* Which way a setter stores depends on its strategy.                      *)
WayInv ==
  \A t \in Thread :
    /\ pc[t] = "swap" => frame[t].strategy.atomic
    /\ pc[t] \in {"read", "write"} => ~frame[t].strategy.atomic

(* Two setters of one ivar are both atomic.                                *)
AloneInv ==
  \A t, u \in Thread :
    (t # u /\ pc[t] # "idle" /\ pc[u] # "idle" /\ frame[t].ivar = frame[u].ivar)
      => frame[t].strategy.atomic /\ frame[u].strategy.atomic

(* So what a nonatomic setter has read is still there when it writes.      *)
OldInv ==
  \A t \in Thread : pc[t] = "write" => ivar[frame[t].ivar] = frame[t].old

(* What a setter has taken is the object itself or its copy.               *)
CopyInv ==
  \A t \in Thread : Taken(t) =>
    IF frame[t].value = Nil \/ frame[t].strategy.take = Plain
    THEN frame[t].taken = frame[t].value
    ELSE IsCopy(t, frame[t].strategy.take)

IInv ==
  /\ TypeOK /\ FrameInv /\ WayInv /\ AloneInv /\ OldInv /\ CopyInv
  /\ ReferencesAccounted

Referring(v) == {i \in Ivar : ivar[i] = v}

(* The sets ReferencesAccounted counts are finite.                         *)
LEMMA Counted ==
  ASSUME NEW v
  PROVE  /\ IsFiniteSet(Referring(v)) /\ IsFiniteSet(Holding(v))
         /\ Cardinality(Referring(v)) \in Nat /\ Cardinality(Holding(v)) \in Nat
<1>1. Referring(v) \in SUBSET Ivar /\ Holding(v) \in SUBSET Thread
  BY DEF Referring, Holding
<1>2. IsFiniteSet(Referring(v)) /\ IsFiniteSet(Holding(v))
  BY <1>1, FS_Subset, FiniteAssumption
<1> QED
  BY <1>2, FS_CardinalityType

(* Who holds an object makes for a reference, and two holders for two.     *)
LEMMA HolderCounts ==
  ASSUME ReferencesAccounted, NEW v \in Value \cup Copy,
         NEW t \in Holding(v)
  PROVE  /\ retained[v] >= 1
         /\ \A u \in Holding(v) : u # t => retained[v] >= 2
<1>1. retained[v] = Cardinality(Referring(v)) + Cardinality(Holding(v))
  BY DEF ReferencesAccounted, Referring
<1>2. /\ IsFiniteSet(Holding(v) \ {t})
      /\ Cardinality(Holding(v) \ {t}) = Cardinality(Holding(v)) - 1
  BY Counted, FS_RemoveElement
<1>3. Cardinality(Holding(v) \ {t}) \in Nat
  BY <1>2, FS_CardinalityType
<1>4. \A u \in Holding(v) : u # t => Cardinality(Holding(v) \ {t}) # 0
  BY <1>2, FS_EmptySet
<1> QED
  BY <1>1, <1>2, <1>3, <1>4, Counted

LEMMA InitIInv == Init => IInv
<1> SUFFICES ASSUME Init PROVE IInv
  OBVIOUS
<1>1. \A v \in Value \cup Copy : Referring(v) = {} /\ Holding(v) = {}
  BY SentinelAssumption DEF Init, Referring, Holding
<1>2. ReferencesAccounted
  BY <1>1, FS_EmptySet DEF Init, ReferencesAccounted, Referring
<1> QED
  BY <1>2 DEF Init, IInv, TypeOK, Object, Label, NoOrigin, FrameInv, WayInv,
     AloneInv, OldInv, CopyInv, Taken

(* The count of an object that a step does nothing to.                     *)
LEMMA CountKept ==
  ASSUME ReferencesAccounted, NEW v \in Value \cup Copy,
         retained'[v] = retained[v],
         Referring(v)' = Referring(v), Holding(v)' = Holding(v)
  PROVE  retained'[v] = Cardinality(Referring(v)') + Cardinality(Holding(v)')
  BY DEF ReferencesAccounted, Referring

LEMMA SetIInv ==
  ASSUME IInv, NEW t \in Thread, NEW fn \in Setter, NEW i \in Ivar,
         NEW v \in Value \cup {Nil}, NEW atomic \in BOOLEAN,
         NEW k \in 0 .. 2, Set(t, fn, i, v, atomic, k)
  PROVE  IInv'
<1> DEFINE f == [fn |-> fn, ivar |-> i, value |-> v, atomic |-> atomic,
                 shouldCopy |-> k, strategy |-> Strategy(fn, atomic, k),
                 taken |-> Nil, old |-> Nil]
<1>1. /\ f \in Frame
      /\ f.fn = fn /\ f.ivar = i /\ f.atomic = atomic /\ f.shouldCopy = k
      /\ f.strategy = Strategy(fn, atomic, k)
      /\ f.strategy.atomic <=> Atomic(fn, atomic)
  BY StrategyType DEF Frame, Object
<1>2. /\ pc[t] = "idle" /\ frame' = [frame EXCEPT ![t] = f]
      /\ pc' = [pc EXCEPT ![t] = "take"]
      /\ UNCHANGED <<ivar, retained, origin>>
      /\ \A u \in Setting(i) :
           Atomic(fn, atomic) /\ Atomic(frame[u].fn, frame[u].atomic)
  BY DEF Set, Goto
<1> HIDE DEF f
<1>3. TypeOK'
  BY <1>1, <1>2 DEF IInv, TypeOK, Label
<1>4. FrameInv'
  BY <1>1, <1>2 DEF IInv, TypeOK, FrameInv
<1>5. WayInv' /\ OldInv' /\ CopyInv'
  BY <1>2 DEF IInv, TypeOK, WayInv, OldInv, CopyInv, Taken, IsCopy
<1>6. \A u \in Thread : (pc[u] # "idle" /\ frame[u].ivar = i) =>
        frame[u].strategy.atomic /\ f.strategy.atomic
  BY <1>1, <1>2, StrategyType DEF IInv, FrameInv, Frame, Setting
<1>7. AloneInv'
  BY <1>1, <1>2, <1>6 DEF IInv, TypeOK, AloneInv
<1>8. \A w \in Value \cup Copy : Referring(w)' = Referring(w)
                               /\ Holding(w)' = Holding(w)
  BY <1>2 DEF IInv, TypeOK, Referring, Holding
<1>9. ReferencesAccounted'
  BY <1>2, <1>8 DEF IInv, ReferencesAccounted, Referring
<1> QED
  BY <1>3, <1>4, <1>5, <1>7, <1>9 DEF IInv

(* A taken object is held by one setter more.                              *)
LEMMA TakeIInv ==
  ASSUME IInv, NEW t \in Thread, NEW v \in Value \cup Copy \cup {Nil},
         Take(t, v)
  PROVE  IInv'
<1> DEFINE f == frame[t]
<1> USE DEF Taken
<1>1. /\ pc[t] = "take" /\ f \in Frame
      /\ pc' = [pc EXCEPT ![t] = IF f.strategy.atomic THEN "swap" ELSE "read"]
      /\ frame' = [frame EXCEPT ![t].taken = v]
      /\ retained' = [w \in Value \cup Copy |->
                        IF w = v THEN retained[w] + 1 ELSE retained[w]]
      /\ ivar' = ivar
  BY DEF Take, Goto, IInv, FrameInv
<1>2. \/ v = f.value /\ (f.value = Nil \/ f.strategy.take = Plain)
         /\ origin' = origin
      \/ /\ f.value # Nil /\ f.strategy.take # Plain
         /\ v \in Copy /\ retained[v] = 0
         /\ origin' = [origin EXCEPT ![v] = <<f.value, f.strategy.take>>]
  BY DEF Take
<1>3. /\ f.strategy.atomic \in BOOLEAN
      /\ f.value \in Value \cup {Nil}
      /\ f.strategy.take \in {Plain, Copying, MutableCopy}
      /\ pc'[t] \in {"swap", "read"}
      /\ frame'[t] = [f EXCEPT !.taken = v] /\ frame'[t] \in Frame
      /\ \A u \in Thread \ {t} : frame'[u] = frame[u] /\ pc'[u] = pc[u]
  BY <1>1 DEF IInv, TypeOK, Frame, Object
<1>4. \A u \in Thread \ {t} : Taken(u) /\ frame[u].taken \in Copy =>
        frame[u].taken # v \/ origin' = origin
  <2> SUFFICES ASSUME NEW u \in Thread \ {t}, Taken(u), frame[u].taken = v, v \in Copy
               PROVE  retained[v] # 0
    BY <1>2
  <2>1. u \in Holding(v)
    BY DEF Holding
  <2> QED
    BY <2>1, HolderCounts DEF IInv
<1>5. TypeOK'
  <2>1. origin' \in [Copy -> (Value \cup {Nil}) \X {"none", Copying, MutableCopy}]
    BY <1>2, <1>3 DEF IInv, TypeOK
  <2>2. \A c \in Copy : retained'[c] = 0 <=> origin'[c] = NoOrigin
    BY <1>1, <1>2, <1>3, SentinelAssumption
    DEF IInv, TypeOK, NoOrigin, Copying, MutableCopy
  <2> QED
    BY <1>1, <1>3, <2>1, <2>2 DEF IInv, TypeOK, Label
<1>6. FrameInv'
  BY <1>1, <1>3 DEF IInv, TypeOK, FrameInv, Frame
<1>7. WayInv' /\ AloneInv' /\ OldInv'
  BY <1>1, <1>3 DEF IInv, TypeOK, WayInv, AloneInv, OldInv, Frame
<1>8. CopyInv'
  <2>1. ASSUME NEW u \in Thread \ {t}, Taken(u)'
        PROVE  IF frame'[u].value = Nil \/ frame'[u].strategy.take = Plain
               THEN frame'[u].taken = frame'[u].value
               ELSE IsCopy(u, frame[u].strategy.take)'
    BY <1>2, <1>3, <1>4, <2>1 DEF IInv, TypeOK, CopyInv, IsCopy
  <2>2. IF frame'[t].value = Nil \/ frame'[t].strategy.take = Plain
        THEN frame'[t].taken = frame'[t].value
        ELSE IsCopy(t, frame[t].strategy.take)'
    BY <1>2, <1>3 DEF IInv, TypeOK, IsCopy, Frame
  <2> QED
    BY <2>1, <2>2 DEF CopyInv
<1>9. ReferencesAccounted'
  <2> SUFFICES ASSUME NEW w \in Value \cup Copy
               PROVE  retained'[w] =
                        Cardinality(Referring(w)') + Cardinality(Holding(w)')
    BY DEF ReferencesAccounted, Referring
  <2>1. Referring(w)' = Referring(w) /\ t \notin Holding(w)
    BY <1>1 DEF Referring, Holding
  <2>2. CASE w = v
    <3>1. Holding(w)' = Holding(w) \cup {t}
      BY <1>1, <1>3, <2>2 DEF Holding, Frame
    <3>2. Cardinality(Holding(w)') = Cardinality(Holding(w)) + 1
      BY <2>1, <3>1, Counted, FS_AddElement
    <3>3. retained[w] = Cardinality(Referring(w)) + Cardinality(Holding(w))
      BY DEF IInv, ReferencesAccounted, Referring
    <3>4. retained'[w] = retained[w] + 1
      BY <1>1, <2>2
    <3> QED
      BY <2>1, <3>2, <3>3, <3>4, Counted
  <2>3. CASE w # v
    <3>1. Holding(w)' = Holding(w)
      BY <1>1, <1>3, <2>3 DEF Holding, Frame
    <3>2. retained'[w] = retained[w]
      BY <1>1, <2>3
    <3> QED
      BY <2>1, <3>1, <3>2, CountKept DEF IInv
  <2> QED
    BY <2>2, <2>3
<1> QED
  BY <1>5, <1>6, <1>7, <1>8, <1>9 DEF IInv

(* Storing moves a reference from the setter to the ivar, and the one the  *)
(* ivar had to the setter.                                                 *)
LEMMA StoreCounts ==
  ASSUME IInv, NEW t \in Thread, pc[t] \in {"swap", "read", "write"},
         ivar' = [ivar EXCEPT ![frame[t].ivar] = frame[t].taken],
         pc' = [pc EXCEPT ![t] = "giveUp"],
         frame'[t].old = ivar[frame[t].ivar],
         \A u \in Thread \ {t} : frame'[u] = frame[u],
         retained' = retained
  PROVE  ReferencesAccounted'
<1> DEFINE i == frame[t].ivar
           new == frame[t].taken
           old == ivar[i]
<1> SUFFICES ASSUME NEW w \in Value \cup Copy
             PROVE  retained'[w] =
                      Cardinality(Referring(w)') + Cardinality(Holding(w)')
  BY DEF ReferencesAccounted, Referring
<1>1. i \in Ivar /\ ivar \in [Ivar -> Object] /\ pc \in [Thread -> Label]
  BY DEF IInv, TypeOK, FrameInv, Frame
<1>2. /\ Referring(w) = (Referring(w) \ {i}) \cup {j \in {i} : old = w}
      /\ Referring(w)' = (Referring(w) \ {i}) \cup {j \in {i} : new = w}
  BY <1>1 DEF Referring
<1>3. Holding(w) = (Holding(w) \ {t}) \cup {u \in {t} : new = w}
  BY DEF Holding
<1>4. Holding(w)' = (Holding(w) \ {t}) \cup {u \in {t} : old = w}
  BY <1>1 DEF Holding
<1> DEFINE R == Referring(w) \ {i}
           H == Holding(w) \ {t}
<1>5. /\ IsFiniteSet(R) /\ IsFiniteSet(H)
      /\ Cardinality(R) \in Nat /\ Cardinality(H) \in Nat
  BY Counted, FS_RemoveElement, FS_CardinalityType
<1>6. /\ Cardinality(R \cup {i}) = Cardinality(R) + 1
      /\ Cardinality(H \cup {t}) = Cardinality(H) + 1
  BY <1>5, FS_AddElement
<1>7. retained[w] = Cardinality(Referring(w)) + Cardinality(Holding(w))
  BY DEF IInv, ReferencesAccounted, Referring
<1> HIDE DEF R, H, i
<1>8. /\ Cardinality(Referring(w)) = Cardinality(R) + (IF old = w THEN 1 ELSE 0)
      /\ Cardinality(Referring(w)') = Cardinality(R) + (IF new = w THEN 1 ELSE 0)
  <2>1. /\ Referring(w) = IF old = w THEN R \cup {i} ELSE R
        /\ Referring(w)' = IF new = w THEN R \cup {i} ELSE R
    BY <1>2 DEF R
  <2> QED
    BY <2>1, <1>5, <1>6
<1>9. /\ Cardinality(Holding(w)) = Cardinality(H) + (IF new = w THEN 1 ELSE 0)
      /\ Cardinality(Holding(w)') = Cardinality(H) + (IF old = w THEN 1 ELSE 0)
  <2>1. /\ Holding(w) = IF new = w THEN H \cup {t} ELSE H
        /\ Holding(w)' = IF old = w THEN H \cup {t} ELSE H
    BY <1>3, <1>4 DEF H
  <2> QED
    BY <2>1, <1>5, <1>6
<1> QED
  BY <1>5, <1>7, <1>8, <1>9

(* The atomic setters only exchange: nobody else's read can be outdated,   *)
(* since nobody reads beside them.                                         *)
LEMMA SwapIInv ==
  ASSUME IInv, NEW t \in Thread, Swap(t)
  PROVE  IInv'
<1> USE DEF Taken
<1>1. /\ pc[t] = "swap" /\ frame[t] \in Frame
      /\ frame' = [frame EXCEPT ![t].old = ivar[frame[t].ivar]]
      /\ ivar' = [ivar EXCEPT ![frame[t].ivar] = frame[t].taken]
      /\ pc' = [pc EXCEPT ![t] = "giveUp"]
      /\ retained' = retained /\ origin' = origin
  BY DEF Swap, Goto, IInv, FrameInv
<1>2. /\ frame'[t] = [frame[t] EXCEPT !.old = ivar[frame[t].ivar]]
      /\ frame'[t] \in Frame /\ pc'[t] = "giveUp"
      /\ \A u \in Thread \ {t} : frame'[u] = frame[u] /\ pc'[u] = pc[u]
  BY <1>1 DEF IInv, TypeOK, Frame
<1>3. TypeOK'
  BY <1>1, <1>2 DEF IInv, TypeOK, Label, Frame
<1>4. FrameInv' /\ WayInv' /\ AloneInv'
  BY <1>1, <1>2 DEF IInv, TypeOK, FrameInv, WayInv, AloneInv, Frame
<1>5. OldInv'
  <2> SUFFICES ASSUME NEW u \in Thread, pc'[u] = "write"
               PROVE  ivar'[frame'[u].ivar] = frame'[u].old
    BY DEF OldInv
  <2>1. u # t /\ pc[u] = "write" /\ ~frame[u].strategy.atomic
        /\ frame'[u] = frame[u] /\ frame[u] \in Frame
    BY <1>2 DEF IInv, WayInv, FrameInv
  <2>2. frame[u].ivar # frame[t].ivar
    BY <1>1, <2>1 DEF IInv, AloneInv
  <2> QED
    BY <1>1, <2>1, <2>2 DEF IInv, TypeOK, OldInv, Frame
<1>6. CopyInv'
  BY <1>1, <1>2 DEF IInv, TypeOK, CopyInv, IsCopy
<1>7. frame'[t].old = ivar[frame[t].ivar]
  BY <1>1, <1>2 DEF Frame
<1>8. ReferencesAccounted'
  BY <1>1, <1>2, <1>7, StoreCounts
<1> QED
  BY <1>3, <1>4, <1>5, <1>6, <1>8 DEF IInv

LEMMA ReadIInv ==
  ASSUME IInv, NEW t \in Thread, ReadOld(t)
  PROVE  IInv'
<1> USE DEF Taken
<1>1. /\ pc[t] = "read" /\ frame[t] \in Frame
      /\ frame' = [frame EXCEPT ![t].old = ivar[frame[t].ivar]]
      /\ pc' = [pc EXCEPT ![t] = "write"]
      /\ ivar' = ivar /\ retained' = retained /\ origin' = origin
  BY DEF ReadOld, Goto, IInv, FrameInv
<1>2. /\ frame'[t] = [frame[t] EXCEPT !.old = ivar[frame[t].ivar]]
      /\ frame'[t] \in Frame /\ pc'[t] = "write"
      /\ \A u \in Thread \ {t} : frame'[u] = frame[u] /\ pc'[u] = pc[u]
  BY <1>1 DEF IInv, TypeOK, Frame
<1>3. TypeOK'
  BY <1>1, <1>2 DEF IInv, TypeOK, Label, Frame
<1>4. FrameInv' /\ WayInv' /\ AloneInv' /\ OldInv'
  BY <1>1, <1>2 DEF IInv, TypeOK, FrameInv, WayInv, AloneInv, OldInv, Frame
<1>5. CopyInv'
  BY <1>1, <1>2 DEF IInv, TypeOK, CopyInv, IsCopy, Frame
<1>6. \A w \in Value \cup Copy : Referring(w)' = Referring(w)
                               /\ Holding(w)' = Holding(w)
  BY <1>1, <1>2 DEF Referring, Holding, Frame
<1>7. ReferencesAccounted'
  BY <1>1, <1>6 DEF IInv, ReferencesAccounted, Referring
<1> QED
  BY <1>3, <1>4, <1>5, <1>7 DEF IInv

(* What the nonatomic setter has read is what it displaces.                *)
LEMMA WriteIInv ==
  ASSUME IInv, NEW t \in Thread, WriteNew(t)
  PROVE  IInv'
<1> USE DEF Taken
<1>1. /\ pc[t] = "write" /\ frame[t] \in Frame
      /\ ivar' = [ivar EXCEPT ![frame[t].ivar] = frame[t].taken]
      /\ pc' = [pc EXCEPT ![t] = "giveUp"]
      /\ frame' = frame /\ retained' = retained /\ origin' = origin
  BY DEF WriteNew, Goto, IInv, FrameInv
<1>2. pc'[t] = "giveUp" /\ \A u \in Thread \ {t} : pc'[u] = pc[u]
  BY <1>1 DEF IInv, TypeOK
<1>3. TypeOK'
  BY <1>1 DEF IInv, TypeOK, Label, Frame
<1>4. FrameInv' /\ WayInv' /\ AloneInv' /\ CopyInv'
  BY <1>1, <1>2 DEF IInv, FrameInv, WayInv, AloneInv, CopyInv, IsCopy
<1>5. OldInv'
  <2> SUFFICES ASSUME NEW u \in Thread, pc'[u] = "write"
               PROVE  ivar'[frame'[u].ivar] = frame'[u].old
    BY DEF OldInv
  <2>1. u # t /\ pc[u] = "write" /\ ~frame[u].strategy.atomic /\ frame[u] \in Frame
    BY <1>2 DEF IInv, WayInv, FrameInv
  <2>2. frame[u].ivar # frame[t].ivar
    BY <1>1, <2>1 DEF IInv, AloneInv
  <2> QED
    BY <1>1, <2>1, <2>2 DEF IInv, TypeOK, OldInv, Frame
<1>6. frame'[t].old = ivar[frame[t].ivar]
  BY <1>1 DEF IInv, OldInv
<1>7. ReferencesAccounted'
  BY <1>1, <1>6, StoreCounts
<1> QED
  BY <1>3, <1>4, <1>5, <1>7 DEF IInv

(* Releasing the old value ends its copy only if nobody else holds it.     *)
LEMMA GiveUpIInv ==
  ASSUME IInv, NEW t \in Thread, GiveUp(t)
  PROVE  IInv'
<1> DEFINE old == frame[t].old
<1> USE DEF Taken
<1>1. /\ pc[t] = "giveUp" /\ frame[t] \in Frame
      /\ retained' = [w \in Value \cup Copy |->
                        IF w = old THEN retained[w] - 1 ELSE retained[w]]
      /\ origin' = [c \in Copy |-> IF c = old /\ retained[c] = 1 THEN NoOrigin
                                                               ELSE origin[c]]
      /\ frame' = [frame EXCEPT ![t] = NoFrame]
      /\ pc' = [pc EXCEPT ![t] = "idle"]
      /\ ivar' = ivar
  BY DEF GiveUp, Goto, IInv, FrameInv
<1>2. /\ pc'[t] = "idle"
      /\ \A u \in Thread \ {t} : frame'[u] = frame[u] /\ pc'[u] = pc[u]
  BY <1>1 DEF IInv, TypeOK
<1>3. old \in Value \cup Copy => t \in Holding(old)
  BY <1>1 DEF Holding
<1>4. old \in Value \cup Copy => retained[old] >= 1
  BY <1>3, HolderCounts DEF IInv
<1>5. TypeOK'
  <2>1. retained' \in [Value \cup Copy -> Nat]
    BY <1>1, <1>4 DEF IInv, TypeOK
  <2>2. origin' \in [Copy -> (Value \cup {Nil}) \X {"none", Copying, MutableCopy}]
    BY <1>1 DEF IInv, TypeOK, NoOrigin
  <2>3. \A c \in Copy : retained'[c] = 0 <=> origin'[c] = NoOrigin
    BY <1>1, <1>4 DEF IInv, TypeOK
  <2> QED
    BY <1>1, <2>1, <2>2, <2>3 DEF IInv, TypeOK, Label
<1>6. FrameInv' /\ WayInv' /\ AloneInv' /\ OldInv'
  BY <1>1, <1>2 DEF IInv, FrameInv, WayInv, AloneInv, OldInv
<1>7. CopyInv'
  <2> SUFFICES ASSUME NEW u \in Thread, Taken(u)'
               PROVE  IF frame'[u].value = Nil \/ frame'[u].strategy.take = Plain
                      THEN frame'[u].taken = frame'[u].value
                      ELSE IsCopy(u, frame[u].strategy.take)'
    BY DEF CopyInv
  <2>1. u # t /\ pc[u] \in {"swap", "read", "write"} /\ frame'[u] = frame[u]
    BY <1>2
  <2>2. ASSUME IsCopy(u, frame[u].strategy.take)
        PROVE  origin'[frame[u].taken] = origin[frame[u].taken]
    <3>1. frame[u].taken \in Copy /\ u \in Holding(frame[u].taken)
      BY <2>1, <2>2 DEF IsCopy, Holding
    <3>2. frame[u].taken = old => retained[old] >= 2
      BY <1>3, <2>1, <3>1, HolderCounts DEF IInv
    <3> QED
      BY <1>1, <3>1, <3>2
  <2> QED
    BY <2>1, <2>2 DEF IInv, CopyInv, IsCopy
<1>8. ReferencesAccounted'
  <2> SUFFICES ASSUME NEW w \in Value \cup Copy
               PROVE  retained'[w] =
                        Cardinality(Referring(w)') + Cardinality(Holding(w)')
    BY DEF ReferencesAccounted, Referring
  <2>1. Referring(w)' = Referring(w)
    BY <1>1 DEF Referring
  <2>2. retained[w] = Cardinality(Referring(w)) + Cardinality(Holding(w))
    BY DEF IInv, ReferencesAccounted, Referring
  <2>3. CASE w = old
    <3>1. Holding(w)' = Holding(w) \ {t} /\ t \in Holding(w)
      BY <1>1, <1>2, <1>3, <2>3 DEF Holding
    <3>2. Cardinality(Holding(w)') = Cardinality(Holding(w)) - 1
      BY <3>1, Counted, FS_RemoveElement
    <3>3. retained'[w] = retained[w] - 1
      BY <1>1, <2>3
    <3> QED
      BY <2>1, <2>2, <3>2, <3>3, Counted
  <2>4. CASE w # old
    <3>1. Holding(w)' = Holding(w)
      BY <1>1, <1>2, <2>4 DEF Holding
    <3>2. retained'[w] = retained[w]
      BY <1>1, <2>4
    <3> QED
      BY <2>1, <3>1, <3>2, CountKept DEF IInv
  <2> QED
    BY <2>3, <2>4
<1> QED
  BY <1>5, <1>6, <1>7, <1>8 DEF IInv

-----------------------------------------------------------------------------
(* The inductive invariant holds in every reachable state.                 *)
THEOREM Invariance == Spec => []IInv
<1>1. IInv /\ [Next]_vars => IInv'
  <2>1. ASSUME IInv, UNCHANGED vars
        PROVE  IInv'
    <3>1. /\ TypeOK' /\ FrameInv' /\ WayInv' /\ AloneInv' /\ OldInv'
          /\ CopyInv'
      BY <2>1 DEF vars, IInv, TypeOK, FrameInv, WayInv, AloneInv, OldInv,
         CopyInv, Taken, IsCopy
    <3>2. \A w \in Value \cup Copy : Referring(w)' = Referring(w)
                                   /\ Holding(w)' = Holding(w)
      BY <2>1 DEF vars, Referring, Holding
    <3>3. ReferencesAccounted'
      BY <2>1, <3>2 DEF vars, IInv, ReferencesAccounted, Referring
    <3> QED
      BY <3>1, <3>3 DEF IInv
  <2> QED
    BY <2>1, SetIInv, TakeIInv, SwapIInv, ReadIInv, WriteIInv, GiveUpIInv
    DEF Next
<1> QED
  BY <1>1, InitIInv, PTL DEF Spec

(* The state has its types: nothing is released more often than it was     *)
(* retained.                                                               *)
THEOREM TypeCorrect == Spec => []TypeOK
  BY Invariance, PTL DEF IInv

(* However setters interleave, an object has a reference for each ivar that *)
(* refers to it and each setter that is about to store it or give it up.   *)
THEOREM ReferencesTheorem == Spec => []ReferencesAccounted
  BY Invariance, PTL DEF IInv

(* A setter stores the object, an immutable or a mutable copy, by its name. *)
THEOREM StoresTheorem == Spec => []StoresByName
<1>1. IInv => StoresByName
  <2> SUFFICES ASSUME IInv, NEW t \in Thread, Taken(t), frame[t].value # Nil
               PROVE  CASE frame[t].fn = "objc_setProperty" -> IsCopy(t, MutableCopy)
                        [] frame[t].fn \in {"objc_setProperty_nonatomic",
                                            "objc_setProperty_atomic"} ->
                             frame[t].taken = frame[t].value
                        [] OTHER -> IsCopy(t, Copying)
    BY DEF StoresByName
  <2>1. pc[t] # "idle" /\ frame[t] \in Frame
    BY DEF IInv, FrameInv, Taken
  <2>2. frame[t].strategy.take =
          CASE frame[t].fn = "objc_setProperty" -> MutableCopy
            [] frame[t].fn \in {"objc_setProperty_nonatomic",
                                "objc_setProperty_atomic"} -> Plain
            [] OTHER -> Copying
    BY <2>1, StrategyType DEF IInv, FrameInv, Frame
  <2>3. Plain # Copying /\ Plain # MutableCopy
    BY DEF Plain, Copying, MutableCopy
  <2> QED
    BY <2>2, <2>3 DEF IInv, CopyInv
<1> QED
  BY <1>1, Invariance, PTL

-----------------------------------------------------------------------------
(* The attributes.                                                         *)

-----------------------------------------------------------------------------
(* Recursion up to a number.                                               *)

(* Induction over a set, which takes no operator.                          *)
LEMMA UpTo ==
  ASSUME NEW n \in Nat, NEW S, 0 \in S,
         \A i \in 1 .. n : i - 1 \in S => i \in S
  PROVE  0 .. n \subseteq S
<1> DEFINE T == {i \in 0 .. n : i \notin S}
<1> SUFFICES ASSUME T # {} PROVE FALSE
  OBVIOUS
<1>1. PICK x \in T : \A y \in T : <<y, x>> \notin OpToRel(<, Nat)
  <2>1. T \subseteq Nat
    OBVIOUS
  <2> HIDE DEF T
  <2> QED
    BY <2>1, NatLessThanWellFounded, WFMin
<1>2. x \in Nat /\ \A y \in T : ~(y < x)
  <2>1. x \in Nat /\ T \subseteq Nat
    OBVIOUS
  <2> HIDE DEF T
  <2> QED
    BY <1>1, <2>1, Zenon DEF OpToRel
<1>3. x # 0 /\ x \in 1 .. n
  BY <1>2
<1>4. x - 1 \in 0 .. n /\ x - 1 < x
  BY <1>3
<1>5. x - 1 \in S
  BY <1>2, <1>4
<1> QED
  BY <1>1, <1>3, <1>5

(* f are the results of the first n steps from a base.                     *)
Iterated(n, base, step, f) ==
  \A i \in 0 .. n : f[i] = IF i = 0 THEN base ELSE step[<<i, f[i - 1]>>]

(* From a base, n steps can be taken within a set that they do not leave.  *)
LEMMA Iterates ==
  ASSUME NEW n \in Nat, NEW V, NEW base \in V, NEW step \in [(1 .. n) \X V -> V]
  PROVE  \E f \in [0 .. n -> V] : Iterated(n, base, step, f)
<1> USE DEF Iterated
<1> DEFINE To(k) == \E f \in [0 .. n -> V] :
              \A i \in 0 .. k : f[i] = IF i = 0 THEN base ELSE step[<<i, f[i - 1]>>]
           S == {k \in 0 .. n : To(k)}
<1>1. 0 \in S
  <2> DEFINE g == [i \in 0 .. n |-> base]
  <2>1. g \in [0 .. n -> V]
    OBVIOUS
  <2>2. \A i \in 0 .. 0 : g[i] = IF i = 0 THEN base ELSE step[<<i, g[i - 1]>>]
    OBVIOUS
  <2> HIDE DEF g
  <2>3. To(0)
    BY <2>1, <2>2
  <2> QED
    BY <2>3
<1>2. ASSUME NEW k \in 1 .. n, k - 1 \in S
      PROVE  k \in S
  <2>1. PICK f \in [0 .. n -> V] :
          \A i \in 0 .. (k - 1) : f[i] = IF i = 0 THEN base ELSE step[<<i, f[i - 1]>>]
    BY <1>2
  <2> DEFINE g == [f EXCEPT ![k] = step[<<k, f[k - 1]>>]]
  <2>2. g \in [0 .. n -> V]
    <3>1. k - 1 \in 0 .. n
      OBVIOUS
    <3>2. f[k - 1] \in V
      BY <3>1
    <3> QED
      BY <3>2
  <2>3. \A i \in 0 .. k : g[i] = IF i = 0 THEN base ELSE step[<<i, g[i - 1]>>]
    <3> SUFFICES ASSUME NEW i \in 0 .. k
                 PROVE  g[i] = IF i = 0 THEN base ELSE step[<<i, g[i - 1]>>]
      OBVIOUS
    <3>1. CASE i = k
      <4>1. g[i] = step[<<k, f[k - 1]>>] /\ g[k - 1] = f[k - 1]
        BY <3>1
      <4> QED
        BY <3>1, <4>1
    <3>2. CASE i < k
      <4>1. g[i] = f[i] /\ (i # 0 => g[i - 1] = f[i - 1])
        BY <3>2
      <4> QED
        BY <2>1, <3>2, <4>1
    <3> QED
      BY <3>1, <3>2
  <2> HIDE DEF g
  <2>4. To(k)
    BY <2>2, <2>3
  <2> QED
    BY <2>4
<1>3. n \in S
  <2> HIDE DEF S
  <2>1. 0 .. n \subseteq S
    BY <1>1, <1>2, UpTo
  <2> QED
    BY <2>1
<1> QED
  BY <1>3

-----------------------------------------------------------------------------
(* What is recursive in the model.                                         *)

(* What is written of an attribute, and what a copy has of it.             *)
Attr   == [name : AttributeName, value : Seq(Char \ {Comma})]
Copied == [name : Seq(Char), value : Seq(Char)]

(* The attributes that have a value.                                       *)
LEMMA WrittenType ==
  ASSUME NEW attrs \in Seq([name : AttributeName, value : AttributeValue])
  PROVE  Written(attrs) \in Seq(Attr) /\ (attrs = <<>> => Written(attrs) = <<>>)
<1> DEFINE n == Len(attrs)
           Put(i, v) == IF attrs[i].value = NoValue THEN v
                        ELSE Append(v, attrs[i])
           step == [p \in (1 .. n) \X Seq(Attr) |-> Put(p[1], p[2])]
           g == CHOOSE f : f = [i \in 0 .. n |-> IF i = 0 THEN <<>> ELSE
                                   IF attrs[i].value = NoValue THEN f[i - 1]
                                   ELSE Append(f[i - 1], attrs[i])]
<1>0. n \in Nat /\ <<>> \in Seq(Attr)
  OBVIOUS
<1>1. ASSUME NEW i \in 1 .. n, NEW v \in Seq(Attr)
      PROVE  Put(i, v) \in Seq(Attr)
  <2>1. attrs[i] \in [name : AttributeName, value : AttributeValue]
    BY ElementOfSeq
  <2>2. attrs[i].value # NoValue => attrs[i] \in Attr
    BY <2>1 DEF Attr, AttributeValue
  <2> QED
    BY <2>2
<1>2. PICK f \in [0 .. n -> Seq(Attr)] : Iterated(n, <<>>, step, f)
  <2>1. step \in [(1 .. n) \X Seq(Attr) -> Seq(Attr)]
    <3> HIDE DEF Put
    <3> QED
      BY <1>1
  <2> HIDE DEF step, n
  <2> QED
    BY <1>0, <2>1, Iterates
<1>3. f = [i \in 0 .. n |-> IF i = 0 THEN <<>> ELSE Put(i, f[i - 1])]
  <2>1. f[0] = <<>>
    <3> HIDE DEF n, step
    <3>1. 0 \in 0 .. n
      BY <1>0
    <3> QED
      BY <1>2, <3>1 DEF Iterated
  <2>2. ASSUME NEW i \in 1 .. n
        PROVE  f[i] = Put(i, f[i - 1])
    <3> HIDE DEF Put
    <3>1. <<i, f[i - 1]>> \in (1 .. n) \X Seq(Attr)
      <4> HIDE DEF n
      <4>1. i - 1 \in 0 .. n
        BY <1>0
      <4> QED
        BY <4>1
    <3>2. step[<<i, f[i - 1]>>] = Put(i, f[i - 1])
      BY <3>1
    <3> HIDE DEF n, step
    <3>3. f[i] = step[<<i, f[i - 1]>>]
      BY <1>0, <1>2 DEF Iterated
    <3> QED
      BY <3>2, <3>3
  <2> HIDE DEF Put, n
  <2> QED
    BY <1>0, <2>1, <2>2
<1>4. g = [i \in 0 .. n |-> IF i = 0 THEN <<>> ELSE Put(i, g[i - 1])]
  BY <1>3
<1> DEFINE S == {i \in 0 .. n : g[i] \in Seq(Attr)}
<1>5. 0 .. n \subseteq S
  <2> HIDE DEF g, Put, n
  <2>1. g[0] \in Seq(Attr)
    BY <1>0, <1>4
  <2>2. ASSUME NEW i \in 1 .. n, g[i - 1] \in Seq(Attr)
        PROVE  g[i] \in Seq(Attr)
    <3>1. i \in 0 .. n /\ i # 0
      BY <1>0
    <3>2. g[i] = Put(i, g[i - 1])
      BY <1>4, <3>1
    <3> QED
      BY <1>1, <2>2, <3>2
  <2>3. 0 \in S /\ \A i \in 1 .. n : i - 1 \in S => i \in S
    BY <1>0, <2>1, <2>2
  <2> HIDE DEF S
  <2> QED
    BY <1>0, <2>3, UpTo
<1>6. Written(attrs) = g[n]
  BY DEF Written
<1>7. attrs = <<>> => n = 0
  OBVIOUS
<1> QED
  <2> HIDE DEF g, n
  <2> QED
    BY <1>0, <1>4, <1>5, <1>6, <1>7

(* A pair has at least one character and no comma.                         *)
LEMMA PairType ==
  ASSUME NEW a \in Attr
  PROVE  Pair(a) \in Seq(Char \ {Comma}) /\ Len(Pair(a)) >= 1
<1>1. /\ a.name \in Seq(Char \ {Comma}) /\ a.name # <<>>
      /\ a.value \in Seq(Char \ {Comma})
      /\ <<Quote>> \in Seq(Char \ {Comma})
  <2>1. a.name \in Seq(Char \ {Comma, Quote}) /\ a.name # <<>>
    BY DEF Attr, AttributeName
  <2>2. a.name \in Seq(Char \ {Comma})
    BY <2>1, SeqMonotonic
  <2> QED
    BY <2>1, <2>2, GrammarAssumption DEF Attr
<1> DEFINE m == Len(a.name)
           k == Len(a.value)
<1>2. m \in Nat /\ m # 0 /\ k \in Nat
  BY <1>1, EmptySeq
<1>3. CASE Len(a.name) > 1
  <2>1. <<Quote>> \o a.name \in Seq(Char \ {Comma})
    BY <1>1
  <2>2. (<<Quote>> \o a.name) \o <<Quote>> \in Seq(Char \ {Comma})
    BY <1>1, <2>1
  <2>3. Pair(a) = ((<<Quote>> \o a.name) \o <<Quote>>) \o a.value
    BY <1>3 DEF Pair
  <2>4. /\ Len(<<Quote>> \o a.name) = 1 + Len(a.name)
        /\ Len((<<Quote>> \o a.name) \o <<Quote>>) = 2 + Len(a.name)
    BY <1>1, <1>2, <2>1
  <2>5. Pair(a) \in Seq(Char \ {Comma}) /\ Len(Pair(a)) = (2 + m) + k
    <3> DEFINE u == (<<Quote>> \o a.name) \o <<Quote>>
    <3>1. u \in Seq(Char \ {Comma}) /\ Len(u) = 2 + m /\ Pair(a) = u \o a.value
      BY <2>2, <2>3, <2>4
    <3> HIDE DEF u
    <3>2. Pair(a) \in Seq(Char \ {Comma}) /\ Len(Pair(a)) = Len(u) + Len(a.value)
      BY <1>1, <3>1, ConcatProperties
    <3>3. Len(Pair(a)) = Len(u) + k
      BY <3>2
    <3> HIDE DEF m, k
    <3> QED
      BY <3>1, <3>2, <3>3
  <2> HIDE DEF m, k
  <2> QED
    BY <1>2, <2>5
<1>4. CASE ~(Len(a.name) > 1)
  <2>1. Pair(a) = a.name \o a.value
    BY <1>4 DEF Pair
  <2>2. Pair(a) \in Seq(Char \ {Comma}) /\ Len(Pair(a)) = m + k
    BY <1>1, <2>1, ConcatProperties
  <2> HIDE DEF m, k
  <2> QED
    BY <1>2, <2>2
<1> QED
  BY <1>3, <1>4

(* The strings after each of the pairs are what their recursion says.      *)
LEMMA PairsType ==
  ASSUME NEW w \in Seq(Attr)
  PROVE  /\ Pairs(w) \in [0 .. Len(w) -> Seq(Char)]
         /\ Pairs(w)[0] = <<>>
         /\ \A i \in 1 .. Len(w) :
              Pairs(w)[i] = Pairs(w)[i - 1] \o Append(Pair(w[i]), Comma)
<1> DEFINE n == Len(w)
           Put(i, v) == v \o Append(Pair(w[i]), Comma)
           step == [p \in (1 .. n) \X Seq(Char) |-> Put(p[1], p[2])]
           g == CHOOSE f : f = [i \in 0 .. n |-> IF i = 0 THEN <<>> ELSE
                                   f[i - 1] \o Append(Pair(w[i]), Comma)]
<1>0. n \in Nat /\ <<>> \in Seq(Char)
  OBVIOUS
<1>1. ASSUME NEW i \in 1 .. n, NEW v \in Seq(Char)
      PROVE  Put(i, v) \in Seq(Char)
  <2>1. Pair(w[i]) \in Seq(Char \ {Comma})
    BY PairType, ElementOfSeq
  <2>2. Append(Pair(w[i]), Comma) \in Seq(Char)
    <3>1. Pair(w[i]) \in Seq(Char)
      BY <2>1, SeqMonotonic
    <3> QED
      BY <3>1, GrammarAssumption
  <2> QED
    BY <2>2
<1>2. PICK f \in [0 .. n -> Seq(Char)] : Iterated(n, <<>>, step, f)
  <2>1. step \in [(1 .. n) \X Seq(Char) -> Seq(Char)]
    <3> HIDE DEF Put
    <3> QED
      BY <1>1
  <2> HIDE DEF step, n
  <2> QED
    BY <1>0, <2>1, Iterates
<1>3. f = [i \in 0 .. n |-> IF i = 0 THEN <<>> ELSE Put(i, f[i - 1])]
  <2>1. f[0] = <<>>
    <3> HIDE DEF n, step
    <3>1. 0 \in 0 .. n
      BY <1>0
    <3> QED
      BY <1>2, <3>1 DEF Iterated
  <2>2. ASSUME NEW i \in 1 .. n
        PROVE  f[i] = Put(i, f[i - 1])
    <3> HIDE DEF Put
    <3>1. <<i, f[i - 1]>> \in (1 .. n) \X Seq(Char)
      <4> HIDE DEF n
      <4>1. i - 1 \in 0 .. n
        BY <1>0
      <4> QED
        BY <4>1
    <3>2. step[<<i, f[i - 1]>>] = Put(i, f[i - 1])
      BY <3>1
    <3> HIDE DEF n, step
    <3>3. f[i] = step[<<i, f[i - 1]>>]
      BY <1>0, <1>2 DEF Iterated
    <3> QED
      BY <3>2, <3>3
  <2> HIDE DEF Put, n
  <2> QED
    BY <1>0, <2>1, <2>2
<1>4. g = [i \in 0 .. n |-> IF i = 0 THEN <<>> ELSE Put(i, g[i - 1])]
  BY <1>3
<1> DEFINE S == {i \in 0 .. n : g[i] \in Seq(Char)}
<1>5. 0 .. n \subseteq S
  <2> HIDE DEF g, Put, n
  <2>1. g[0] \in Seq(Char)
    BY <1>0, <1>4
  <2>2. ASSUME NEW i \in 1 .. n, g[i - 1] \in Seq(Char)
        PROVE  g[i] \in Seq(Char)
    <3>1. i \in 0 .. n /\ i # 0
      BY <1>0
    <3>2. g[i] = Put(i, g[i - 1])
      BY <1>4, <3>1
    <3> QED
      BY <1>1, <2>2, <3>2
  <2>3. 0 \in S /\ \A i \in 1 .. n : i - 1 \in S => i \in S
    BY <1>0, <2>1, <2>2
  <2> HIDE DEF S
  <2> QED
    BY <1>0, <2>3, UpTo
<1>6. Pairs(w) = g
  BY DEF Pairs
<1>7. g[0] = <<>>
  <2> HIDE DEF g, Put, n
  <2> QED
    BY <1>0, <1>4
<1>8. \A i \in 1 .. n : g[i] = Put(i, g[i - 1])
  <2> HIDE DEF g, Put, n
  <2> QED
    BY <1>0, <1>4
<1>9. g \in [0 .. n -> Seq(Char)]
  <2> HIDE DEF g, Put, n
  <2> QED
    BY <1>4, <1>5
<1> QED
  <2> HIDE DEF g
  <2> QED
    BY <1>6, <1>7, <1>8, <1>9

(* The bytes of a list are those of its attributes.                        *)
LEMMA BytesFunction ==
  ASSUME NEW attrs \in Seq(Copied)
  PROVE  \E b \in [0 .. Len(attrs) -> Nat] :
           /\ b[0] = 0 /\ b[Len(attrs)] = BytesOf(attrs)
           /\ \A i \in 1 .. Len(attrs) :
                b[i] = b[i - 1] + Len(attrs[i].name) + 1 + Len(attrs[i].value) + 1
<1> DEFINE n == Len(attrs)
           Put(i, v) == v + Len(attrs[i].name) + 1 + Len(attrs[i].value) + 1
           step == [p \in (1 .. n) \X Nat |-> Put(p[1], p[2])]
           g == CHOOSE f : f = [i \in 0 .. n |-> IF i = 0 THEN 0 ELSE
                                   f[i - 1] + Len(attrs[i].name) + 1 + Len(attrs[i].value) + 1]
<1>0. n \in Nat /\ 0 \in Nat
  OBVIOUS
<1>1. ASSUME NEW i \in 1 .. n, NEW v \in Nat
      PROVE  Put(i, v) \in Nat
  <2>1. attrs[i] \in Copied
    BY ElementOfSeq
  <2> DEFINE m == Len(attrs[i].name)
             k == Len(attrs[i].value)
  <2>2. m \in Nat /\ k \in Nat
    BY <2>1 DEF Copied
  <2>3. Put(i, v) = v + m + 1 + k + 1
    OBVIOUS
  <2> HIDE DEF n, m, k, Put
  <2> QED
    BY <2>2, <2>3
<1>2. PICK f \in [0 .. n -> Nat] : Iterated(n, 0, step, f)
  <2>1. step \in [(1 .. n) \X Nat -> Nat]
    <3> HIDE DEF Put
    <3> QED
      BY <1>1
  <2> HIDE DEF step, n
  <2> QED
    BY <1>0, <2>1, Iterates
<1>3. f = [i \in 0 .. n |-> IF i = 0 THEN 0 ELSE Put(i, f[i - 1])]
  <2>1. f[0] = 0
    <3> HIDE DEF n, step
    <3>1. 0 \in 0 .. n
      BY <1>0
    <3> QED
      BY <1>2, <3>1 DEF Iterated
  <2>2. ASSUME NEW i \in 1 .. n
        PROVE  f[i] = Put(i, f[i - 1])
    <3> HIDE DEF Put
    <3>1. <<i, f[i - 1]>> \in (1 .. n) \X Nat
      <4> HIDE DEF n
      <4>1. i - 1 \in 0 .. n
        BY <1>0
      <4> QED
        BY <4>1
    <3>2. step[<<i, f[i - 1]>>] = Put(i, f[i - 1])
      BY <3>1
    <3> HIDE DEF n, step
    <3>3. f[i] = step[<<i, f[i - 1]>>]
      BY <1>0, <1>2 DEF Iterated
    <3> QED
      BY <3>2, <3>3
  <2> HIDE DEF Put, n
  <2> QED
    BY <1>0, <2>1, <2>2
<1>4. g = [i \in 0 .. n |-> IF i = 0 THEN 0 ELSE Put(i, g[i - 1])]
  BY <1>3
<1> DEFINE S == {i \in 0 .. n : g[i] \in Nat}
<1>5. 0 .. n \subseteq S
  <2> HIDE DEF g, Put, n
  <2>1. g[0] \in Nat
    BY <1>0, <1>4
  <2>2. ASSUME NEW i \in 1 .. n, g[i - 1] \in Nat
        PROVE  g[i] \in Nat
    <3>1. i \in 0 .. n /\ i # 0
      BY <1>0
    <3>2. g[i] = Put(i, g[i - 1])
      BY <1>4, <3>1
    <3> QED
      BY <1>1, <2>2, <3>2
  <2>3. 0 \in S /\ \A i \in 1 .. n : i - 1 \in S => i \in S
    BY <1>0, <2>1, <2>2
  <2> HIDE DEF S
  <2> QED
    BY <1>0, <2>3, UpTo
<1>6. BytesOf(attrs) = g[n]
  BY DEF BytesOf
<1>7. g \in [0 .. n -> Nat]
  <2> HIDE DEF g, n, Put
  <2> QED
    BY <1>4, <1>5
<1> QED
  <2> HIDE DEF g
  <2>1. g[0] = 0 /\ \A i \in 1 .. n : g[i] = Put(i, g[i - 1])
    <3> HIDE DEF Put, n
    <3> QED
      BY <1>0, <1>4
  <2> QED
    BY <1>6, <1>7, <2>1

(* One more attribute adds its bytes and a terminator each.                *)
LEMMA BytesAppend ==
  ASSUME NEW l \in Seq(Copied), NEW a \in Copied
  PROVE  /\ BytesOf(l) \in Nat
         /\ BytesOf(Append(l, a)) =
              BytesOf(l) + Len(a.name) + 1 + Len(a.value) + 1
<1> DEFINE n == Len(l)
           m == Append(l, a)
<1>1. /\ n \in Nat /\ m \in Seq(Copied) /\ Len(m) = n + 1
      /\ \A i \in 1 .. n : m[i] = l[i]
      /\ m[n + 1] = a
  OBVIOUS
<1>2. PICK b \in [0 .. n -> Nat] :
        /\ b[0] = 0 /\ b[n] = BytesOf(l)
        /\ \A i \in 1 .. n :
             b[i] = b[i - 1] + Len(l[i].name) + 1 + Len(l[i].value) + 1
  BY BytesFunction
<1>3. PICK c \in [0 .. n + 1 -> Nat] :
        /\ c[0] = 0 /\ c[n + 1] = BytesOf(m)
        /\ \A i \in 1 .. n + 1 :
             c[i] = c[i - 1] + Len(m[i].name) + 1 + Len(m[i].value) + 1
  <2> HIDE DEF m, n
  <2>1. PICK c \in [0 .. Len(m) -> Nat] :
          /\ c[0] = 0 /\ c[Len(m)] = BytesOf(m)
          /\ \A i \in 1 .. Len(m) :
               c[i] = c[i - 1] + Len(m[i].name) + 1 + Len(m[i].value) + 1
    BY <1>1, BytesFunction
  <2> QED
    BY <1>1, <2>1
<1> HIDE DEF n, m
<1> DEFINE S == {i \in 0 .. n : b[i] = c[i]}
<1>4. 0 .. n \subseteq S
  <2>1. 0 \in S
    BY <1>1, <1>2, <1>3
  <2>2. ASSUME NEW i \in 1 .. n, i - 1 \in S
        PROVE  i \in S
    <3>1. i \in 1 .. n + 1 /\ i \in 0 .. n /\ m[i] = l[i] /\ b[i - 1] = c[i - 1]
      BY <1>1, <2>2
    <3>2. b[i] = b[i - 1] + Len(l[i].name) + 1 + Len(l[i].value) + 1
      BY <1>2
    <3>3. c[i] = c[i - 1] + Len(m[i].name) + 1 + Len(m[i].value) + 1
      BY <1>3, <3>1
    <3> QED
      BY <3>1, <3>2, <3>3
  <2> HIDE DEF S
  <2> QED
    BY <1>1, <2>1, <2>2, UpTo
<1>5. n \in 0 .. n /\ n + 1 \in 1 .. n + 1 /\ (n + 1) - 1 = n
  BY <1>1
<1>6. b[n] = c[n] /\ b[n] \in Nat
  BY <1>4, <1>5
<1>7. c[n + 1] = c[n] + Len(m[n + 1].name) + 1 + Len(m[n + 1].value) + 1
  BY <1>3, <1>5
<1> QED
  BY <1>1, <1>2, <1>3, <1>6, <1>7 DEF m

(* Nothing takes no bytes.                                                 *)
LEMMA BytesEmpty == BytesOf(<<>>) = 0
<1>1. <<>> \in Seq(Copied) /\ Len(<<>>) = 0
  OBVIOUS
<1>2. PICK b \in [0 .. Len(<<>>) -> Nat] : b[0] = 0 /\ b[Len(<<>>)] = BytesOf(<<>>)
  BY <1>1, BytesFunction
<1> QED
  BY <1>1, <1>2

-----------------------------------------------------------------------------
(* Scanning and parsing.                                                   *)

(* A set of numbers has a least one.                                       *)
LEMMA MinOf ==
  ASSUME NEW S, S \subseteq Nat, S # {}
  PROVE  Min(S) \in S /\ \A y \in S : Min(S) <= y
<1>1. PICK x \in S : \A y \in S : <<y, x>> \notin OpToRel(<, Nat)
  BY NatLessThanWellFounded, WFMin
<1>2. \A y \in S : ~(y < x)
  BY <1>1, Zenon DEF OpToRel
<1>3. \A y \in S : x <= y
  BY <1>2
<1> QED
  BY <1>3 DEF Min

(* A span ends at the first of the characters, or at the end.              *)
LEMMA SpanEnds ==
  ASSUME NEW s \in Seq(Char), NEW i \in 1 .. Len(s) + 1, NEW cs
  PROVE  /\ Span(s, i, cs) \in i .. Len(s) + 1
         /\ \A j \in i .. Span(s, i, cs) - 1 : s[j] \notin cs
         /\ Span(s, i, cs) <= Len(s) => s[Span(s, i, cs)] \in cs
<1> DEFINE S == {j \in i .. Len(s) : s[j] \in cs} \cup {Len(s) + 1}
           e == Min(S)
<1>1. S \subseteq Nat /\ S # {} /\ S \subseteq i .. Len(s) + 1
  BY LenProperties
<1>2. e \in S /\ \A y \in S : e <= y
  <2> HIDE DEF S
  <2> QED
    BY <1>1, MinOf
<1>3. \A j \in i .. e - 1 : s[j] \notin cs
  <2> SUFFICES ASSUME NEW j \in i .. e - 1, s[j] \in cs
               PROVE  FALSE
    OBVIOUS
  <2>1. e \in Nat /\ e <= Len(s) + 1 /\ Len(s) \in Nat
    <3> HIDE DEF e
    <3> QED
      BY <1>1, <1>2, LenProperties
  <2>2. j \in S
    <3> HIDE DEF e
    <3> QED
      BY <2>1
  <2> QED
    <3> HIDE DEF e, S
    <3> QED
      BY <1>2, <2>1, <2>2
<1>4. e <= Len(s) => s[e] \in cs
  <2> HIDE DEF e
  <2> QED
    BY <1>2, LenProperties
<1>5. Span(s, i, cs) = e
  BY DEF Span
<1> QED
  <2> HIDE DEF e, S
  <2> QED
    BY <1>1, <1>2, <1>3, <1>4, <1>5

(* There is one such place.                                                *)
LEMMA SpanIs ==
  ASSUME NEW s \in Seq(Char), NEW i \in 1 .. Len(s) + 1, NEW cs,
         NEW e \in i .. Len(s) + 1,
         \A j \in i .. e - 1 : s[j] \notin cs,
         e <= Len(s) => s[e] \in cs
  PROVE  Span(s, i, cs) = e
<1>1. PICK d \in i .. Len(s) + 1 :
        /\ d = Span(s, i, cs)
        /\ \A j \in i .. d - 1 : s[j] \notin cs
        /\ d <= Len(s) => s[d] \in cs
  BY SpanEnds
<1>2. Len(s) \in Nat
  OBVIOUS
<1>3. ~(d < e)
  <2> SUFFICES ASSUME d < e PROVE FALSE
    OBVIOUS
  <2>1. d \in i .. e - 1 /\ d <= Len(s)
    BY <1>2
  <2> QED
    BY <1>1, <2>1
<1>4. ~(e < d)
  <2> SUFFICES ASSUME e < d PROVE FALSE
    OBVIOUS
  <2>1. e \in i .. d - 1 /\ e <= Len(s)
    BY <1>2
  <2> QED
    BY <1>1, <2>1
<1> QED
  BY <1>1, <1>2, <1>3, <1>4

(* The name and the value of an attribute are no longer than its part of   *)
(* the string.                                                             *)
LEMMA ParseType ==
  ASSUME NEW part \in Seq(Char), part # <<>>
  PROVE  /\ ParseAttribute(part) \in Copied
         /\ Len(ParseAttribute(part).name) + Len(ParseAttribute(part).value)
              <= Len(part)
<1>1. Len(part) \in Nat /\ Len(part) >= 1 /\ part[1] \in Char
  BY EmptySeq, ElementOfSeq
<1>2. CASE part[1] # Quote
  <2>1. ParseAttribute(part) = [name |-> <<part[1]>>, value |-> Tail(part)]
    BY <1>2 DEF ParseAttribute, Attribute
  <2>2. /\ <<part[1]>> \in Seq(Char) /\ Len(<<part[1]>>) = 1
        /\ Tail(part) \in Seq(Char) /\ Len(Tail(part)) = Len(part) - 1
    BY <1>1, HeadTailProperties
  <2> QED
    BY <1>1, <2>1, <2>2 DEF Copied
<1>3. CASE part[1] = Quote
  <2>1. PICK e \in 2 .. Len(part) + 1 : e = Span(part, 2, {Quote, Comma})
    BY <1>1, SpanEnds
  <2>2. ParseAttribute(part) = [name |-> SubSeq(part, 2, e - 1),
                                value |-> SubSeq(part, e + 1, Len(part))]
    BY <1>3, <2>1 DEF ParseAttribute, Attribute
  <2>3. /\ SubSeq(part, 2, e - 1) \in Seq(Char)
        /\ Len(SubSeq(part, 2, e - 1)) = e - 2
    <3>1. \A i \in 2 .. e - 1 : part[i] \in Char
      BY <1>1, ElementOfSeq
    <3>2. 2 \in Int /\ e - 1 \in Int /\ (2 <= e - 1 \/ e = 2)
      BY <1>1
    <3> QED
      BY <3>1, <3>2, SubSeqProperties
  <2>4. /\ SubSeq(part, e + 1, Len(part)) \in Seq(Char)
        /\ Len(SubSeq(part, e + 1, Len(part))) <= Len(part) - e + 1
    <3>1. \A i \in e + 1 .. Len(part) : part[i] \in Char
      BY <1>1, ElementOfSeq
    <3>2. e + 1 \in Int /\ Len(part) \in Int
      BY <1>1
    <3>3. /\ SubSeq(part, e + 1, Len(part)) \in Seq(Char)
          /\ Len(SubSeq(part, e + 1, Len(part))) =
               IF e + 1 <= Len(part) THEN Len(part) - (e + 1) + 1 ELSE 0
      BY <3>1, <3>2, SubSeqProperties
    <3> QED
      BY <1>1, <3>3
  <2> DEFINE n == SubSeq(part, 2, e - 1)
             v == SubSeq(part, e + 1, Len(part))
  <2>5. ParseAttribute(part) \in Copied
    BY <2>2, <2>3, <2>4 DEF Copied
  <2>6. ParseAttribute(part).name = n /\ ParseAttribute(part).value = v
    BY <2>2
  <2>7. Len(n) = e - 2 /\ Len(v) <= Len(part) - e + 1 /\ Len(v) \in Nat
    BY <2>3, <2>4
  <2> HIDE DEF n, v
  <2> QED
    BY <1>1, <2>5, <2>6, <2>7
<1> QED
  BY <1>2, <1>3

-----------------------------------------------------------------------------
(* The block.                                                              *)

(* The commas among the first k characters.                                *)
Commas(s, k) == Cardinality({i \in 1 .. k : s[i] = Comma})

(* There are no fewer commas in more characters.                           *)
LEMMA CommasGrow ==
  ASSUME NEW s, NEW i \in Nat, NEW k \in Nat, i <= k
  PROVE  /\ Commas(s, i) \in Nat /\ Commas(s, k) \in Nat
         /\ Commas(s, i) <= Commas(s, k)
         /\ i < k /\ s[k] = Comma => Commas(s, i) + 1 <= Commas(s, k)
<1> DEFINE C(n) == {j \in 1 .. n : s[j] = Comma}
<1>1. \A n \in Nat : IsFiniteSet(C(n)) /\ Cardinality(C(n)) \in Nat
  <2> SUFFICES ASSUME NEW n \in Nat
               PROVE  IsFiniteSet(C(n)) /\ Cardinality(C(n)) \in Nat
    OBVIOUS
  <2>1. IsFiniteSet(1 .. n) /\ C(n) \subseteq 1 .. n
    BY FS_Interval
  <2>2. IsFiniteSet(C(n))
    <3> HIDE DEF C
    <3> QED
      BY <2>1, FS_Subset
  <2> HIDE DEF C
  <2> QED
    BY <2>2, FS_CardinalityType
<1>2. C(i) \subseteq C(k)
  OBVIOUS
<1>3. Cardinality(C(i)) <= Cardinality(C(k))
  <2> HIDE DEF C
  <2> QED
    BY <1>1, <1>2, FS_Subset
<1>4. ASSUME i < k, s[k] = Comma
      PROVE  Cardinality(C(i)) + 1 <= Cardinality(C(k))
  <2>1. k \notin C(i) /\ C(i) \cup {k} \subseteq C(k)
    BY <1>4
  <2> HIDE DEF C
  <2>2. /\ IsFiniteSet(C(i) \cup {k})
        /\ Cardinality(C(i) \cup {k}) = Cardinality(C(i)) + 1
    BY <1>1, <2>1, FS_AddElement
  <2>3. Cardinality(C(i) \cup {k}) <= Cardinality(C(k))
    BY <1>1, <2>1, FS_Subset
  <2> QED
    BY <2>2, <2>3
<1> QED
  BY <1>1, <1>3, <1>4 DEF Commas

(* The code counts a slot for each comma, and one more.                    *)
LEMMA SlotsAreCommas ==
  ASSUME NEW s \in Seq(Char)
  PROVE  Slots(s) = Commas(s, Len(s)) + 1
<1>1. DOMAIN s = 1 .. Len(s)
  OBVIOUS
<1> QED
  BY <1>1 DEF Slots, Commas

(* The state has its types; between two reads the reader is where it       *)
(* begins, and while it looks for a name it has not copied anything.       *)
TypesInv ==
  /\ source \in AttrLists \cup {NoList}
  /\ text \in Seq(Char)
  /\ query \in Query \cup {All}
  /\ at \in 1 .. Len(text) + 1
  /\ out \in Seq(Copied)
  /\ phase \in {"property", "iterate", "done"}
  /\ phase = "property" => at = 1 /\ out = <<>>
  /\ phase = "iterate" /\ query # All => out = <<>>

(* What has been copied is paid for by what has been read: an attribute by *)
(* the comma that ends it, the terminators of its name and of its value by *)
(* that comma and one more.  The attribute at the end has no comma.        *)
BoundInv ==
  \/ /\ Len(out) <= Commas(text, at - 1)
     /\ BytesOf(out) <= (at - 1) + Commas(text, at - 1)
  \/ /\ at = Len(text) + 1
     /\ Len(out) <= Commas(text, Len(text)) + 1
     /\ BytesOf(out) <= Len(text) + Commas(text, Len(text)) + 2

(* Where the part of the string ends that the reader is at.                *)
LEMMA EndType ==
  ASSUME TypesInv, at <= Len(text)
  PROVE  /\ End \in at .. Len(text) + 1
         /\ End <= Len(text) => text[End] = Comma
         /\ After \in at + 1 .. Len(text) + 1
         /\ After = IF End > Len(text) THEN Len(text) + 1 ELSE End + 1
<1>1. Len(text) \in Nat
  BY DEF TypesInv
<1>2. End \in at .. Len(text) + 1 /\ (End <= Len(text) => text[End] = Comma)
  BY SpanEnds DEF TypesInv, End
<1> QED
  BY <1>1, <1>2 DEF After, TypesInv

(* What the reader is at is not empty and no longer than what it reads.    *)
LEMMA PartType ==
  ASSUME TypesInv, at <= Len(text), End # at
  PROVE  /\ Part \in Seq(Char) /\ Part # <<>> /\ Len(Part) = End - at
         /\ ParseAttribute(Part) \in Copied
         /\ Len(ParseAttribute(Part).name) + Len(ParseAttribute(Part).value)
              <= End - at
<1>1. /\ End \in at .. Len(text) + 1 /\ at \in Nat /\ End \in Nat
      /\ at <= End - 1 /\ at >= 1 /\ Len(text) \in Nat
  BY EndType DEF TypesInv
<1>2. \A i \in at .. End - 1 : text[i] \in Char
  BY <1>1, ElementOfSeq DEF TypesInv
<1>3. Part \in Seq(Char) /\ Len(Part) = End - at
  <2>1. Len(SubSeq(text, at, End - 1)) = (End - 1) - at + 1
    BY <1>1, <1>2, SubSeqProperties
  <2>2. SubSeq(text, at, End - 1) \in Seq(Char)
    BY <1>1, <1>2, SubSeqProperties
  <2> QED
    BY <1>1, <2>1, <2>2 DEF Part
<1>4. Part # <<>>
  BY <1>1, <1>3
<1> QED
  BY <1>3, <1>4, ParseType

(* The reader goes on, with or without a copy of the attribute it is at.   *)
LEMMA BoundStep ==
  ASSUME TypesInv, BoundInv, at <= Len(text),
         at' = After, text' = text,
         \/ out' = out
         \/ End # at /\ out' = Append(out, ParseAttribute(Part))
  PROVE  BoundInv'
<1> DEFINE n == Len(text)
           C(k) == Commas(text, k)
           m == Len(out)
           m1 == Len(out')
           b == BytesOf(out)
           b1 == BytesOf(out')
<1>1. /\ n \in Nat /\ at \in Nat /\ at >= 1 /\ at <= n
      /\ End \in at .. n + 1
      /\ End <= n => text[End] = Comma
      /\ at' = IF End > n THEN n + 1 ELSE End + 1
  BY EndType DEF TypesInv
<1>2. /\ m \in Nat /\ b \in Nat
      /\ m <= C(at - 1) /\ b <= (at - 1) + C(at - 1)
  <2>1. BytesOf(out) \in Nat
    <3>1. Attribute(<<>>, <<>>) \in Copied
      BY DEF Attribute, Copied
    <3> QED
      BY <3>1, BytesAppend DEF TypesInv
  <2> QED
    BY <1>1, <2>1 DEF BoundInv, TypesInv
<1>3. /\ C(at - 1) \in Nat /\ C(n) \in Nat /\ C(at - 1) <= C(n)
      /\ End <= n => /\ C(End) \in Nat /\ C(at - 1) + 1 <= C(End)
  <2>1. at - 1 \in Nat /\ at - 1 <= n /\ End \in Nat /\ at - 1 < End
    BY <1>1
  <2> QED
    BY <1>1, <2>1, CommasGrow
<1>4. /\ m1 <= m + 1 /\ b1 <= b + (End - at) + 2
      /\ m1 \in Nat /\ b1 \in Nat
  <2>1. CASE out' = out
    BY <1>1, <1>2, <2>1
  <2>2. CASE End # at /\ out' = Append(out, ParseAttribute(Part))
    <3> DEFINE a == ParseAttribute(Part)
               l == Len(a.name)
               k == Len(a.value)
    <3>1. a \in Copied /\ l + k <= End - at
      BY <1>1, <2>2, PartType
    <3>2. l \in Nat /\ k \in Nat
      <4> HIDE DEF a
      <4> QED
        BY <3>1 DEF Copied
    <3>3. b1 = b + l + 1 + k + 1
      BY <2>2, <3>1, BytesAppend DEF TypesInv
    <3>4. m1 = m + 1
      BY <2>2, <3>1 DEF TypesInv
    <3> HIDE DEF a, l, k, m, m1, b, b1
    <3> QED
      BY <1>1, <1>2, <3>1, <3>2, <3>3, <3>4
  <2> QED
    BY <2>1, <2>2
<1>5. CASE End <= n
  <2>1. at' = End + 1 /\ at' - 1 = End
    BY <1>1, <1>5
  <2>2. m1 <= C(End) /\ b1 <= End + C(End)
    <3> HIDE DEF C, n, m, m1, b, b1
    <3> QED
      BY <1>1, <1>2, <1>3, <1>4, <1>5
  <2> QED
    BY <2>1, <2>2 DEF BoundInv
<1>6. CASE End > n
  <2>1. at' = n + 1 /\ End = n + 1
    BY <1>1, <1>6
  <2>2. m1 <= C(n) + 1 /\ b1 <= n + C(n) + 2
    <3> HIDE DEF C, n, m, m1, b, b1
    <3> QED
      BY <1>1, <1>2, <1>3, <1>4, <2>1
  <2> QED
    BY <2>1, <2>2 DEF BoundInv
<1> QED
  BY <1>1, <1>5, <1>6

-----------------------------------------------------------------------------
(* Reading what was written.                                               *)

(* One string after another.                                               *)
LEMMA Concat ==
  ASSUME NEW S, NEW s \in Seq(S), NEW t \in Seq(S), NEW u, u = s \o t
  PROVE  /\ u \in Seq(S) /\ Len(u) = Len(s) + Len(t)
         /\ \A i \in 1 .. Len(s) : u[i] = s[i]
         /\ \A i \in 1 .. Len(t) : u[Len(s) + i] = t[i]
<1>1. /\ u \in Seq(S) /\ Len(u) = Len(s) + Len(t)
      /\ \A i \in 1 .. Len(s) + Len(t) :
           u[i] = IF i <= Len(s) THEN s[i] ELSE t[i - Len(s)]
  BY ConcatProperties
<1>2. Len(s) \in Nat /\ Len(t) \in Nat
  BY LenProperties
<1>3. \A i \in 1 .. Len(s) : u[i] = s[i]
  BY <1>1, <1>2
<1>4. \A i \in 1 .. Len(t) : u[Len(s) + i] = t[i]
  <2> SUFFICES ASSUME NEW i \in 1 .. Len(t) PROVE u[Len(s) + i] = t[i]
    OBVIOUS
  <2>1. /\ Len(s) + i \in 1 .. Len(s) + Len(t) /\ ~(Len(s) + i <= Len(s))
        /\ (Len(s) + i) - Len(s) = i
    BY <1>2
  <2> QED
    BY <1>1, <2>1
<1> QED
  BY <1>1, <1>3, <1>4

(* A quoted name and what follows it.                                      *)
LEMMA Quoted ==
  ASSUME NEW n \in Seq(Char), NEW v \in Seq(Char), NEW p,
         p = <<Quote>> \o n \o <<Quote>> \o v
  PROVE  /\ p \in Seq(Char) /\ Len(p) = 2 + Len(n) + Len(v)
         /\ p[1] = Quote /\ p[Len(n) + 2] = Quote
         /\ \A i \in 1 .. Len(n) : p[1 + i] = n[i]
         /\ \A i \in 1 .. Len(v) : p[Len(n) + 2 + i] = v[i]
<1>1. PICK q : q = <<Quote>>
  OBVIOUS
<1>2. q \in Seq(Char)
  BY <1>1, GrammarAssumption
<1>3. Len(q) = 1 /\ q[1] = Quote
  BY <1>1
<1>4. PICK q1 : q1 = q \o n
  OBVIOUS
<1>5. PICK q2 : q2 = q1 \o q
  OBVIOUS
<1>6. PICK r : r = q2 \o v
  OBVIOUS
<1>7. r = p
  BY <1>1, <1>4, <1>5, <1>6
<1>8. /\ q1 \in Seq(Char) /\ Len(q1) = Len(q) + Len(n)
      /\ \A i \in 1 .. Len(q) : q1[i] = q[i]
      /\ \A i \in 1 .. Len(n) : q1[Len(q) + i] = n[i]
  BY <1>2, <1>4, Concat
<1>9. /\ q2 \in Seq(Char) /\ Len(q2) = Len(q1) + Len(q)
      /\ \A i \in 1 .. Len(q1) : q2[i] = q1[i]
      /\ \A i \in 1 .. Len(q) : q2[Len(q1) + i] = q[i]
  <2>1. q1 \in Seq(Char)
    BY <1>8
  <2> QED
    BY <1>2, <1>5, <2>1, Concat
<1>10. /\ r \in Seq(Char) /\ Len(r) = Len(q2) + Len(v)
       /\ \A i \in 1 .. Len(q2) : r[i] = q2[i]
       /\ \A i \in 1 .. Len(v) : r[Len(q2) + i] = v[i]
  <2>1. q2 \in Seq(Char)
    BY <1>9
  <2> QED
    BY <1>6, <2>1, Concat
<1>11. PICK l \in Nat : l = Len(n)
  BY LenProperties
<1>12. PICK m \in Nat : m = Len(v)
  BY LenProperties
<1>13. Len(q1) = 1 + l /\ Len(q2) = l + 2
  BY <1>3, <1>8, <1>9, <1>11
<1>14. /\ \A i \in 1 .. l : q1[1 + i] = n[i]
       /\ q1[1] = Quote
  BY <1>3, <1>8, <1>11
<1>15. /\ \A i \in 1 .. l : q2[1 + i] = n[i]
       /\ q2[1] = Quote /\ q2[l + 2] = Quote
  <2>1. \A i \in 1 .. l : 1 + i \in 1 .. Len(q1)
    BY <1>13
  <2>2. 1 \in 1 .. Len(q1) /\ 1 \in 1 .. Len(q) /\ Len(q1) + 1 = l + 2
    BY <1>3, <1>13
  <2> QED
    BY <1>3, <1>9, <1>14, <2>1, <2>2
<1>16. /\ \A i \in 1 .. l : r[1 + i] = n[i]
       /\ r[1] = Quote /\ r[l + 2] = Quote
  <2>1. /\ \A i \in 1 .. l : 1 + i \in 1 .. Len(q2)
        /\ 1 \in 1 .. Len(q2) /\ l + 2 \in 1 .. Len(q2)
    BY <1>13
  <2> QED
    BY <1>10, <1>15, <2>1
<1>17. \A i \in 1 .. Len(v) : r[l + 2 + i] = v[i]
  BY <1>10, <1>13
<1> QED
  BY <1>7, <1>10, <1>11, <1>12, <1>13, <1>16, <1>17

(* A part of the string that holds a pair is parsed into the attribute it  *)
(* was written from.                                                       *)
LEMMA ParsePair ==
  ASSUME NEW a \in Attr
  PROVE  ParseAttribute(Pair(a)) = a
<1> DEFINE n == a.name
           v == a.value
           l == Len(n)
           m == Len(v)
           p == Pair(a)
<1>1. /\ n \in Seq(Char \ {Comma, Quote}) /\ n # <<>>
      /\ v \in Seq(Char \ {Comma})
      /\ a = [name |-> n, value |-> v]
  BY DEF Attr, AttributeName
<1>2. /\ n \in Seq(Char) /\ v \in Seq(Char) /\ <<Quote>> \in Seq(Char)
      /\ \A i \in 1 .. l : n[i] \notin {Comma, Quote} /\ n[i] \in Char
      /\ l \in Nat /\ m \in Nat /\ l >= 1
  <2>1. n \in Seq(Char) /\ v \in Seq(Char)
    BY <1>1, SeqMonotonic
  <2>2. <<Quote>> \in Seq(Char)
    BY GrammarAssumption
  <2>3. \A i \in 1 .. l : n[i] \in Char \ {Comma, Quote}
    <3> HIDE DEF n
    <3> QED
      BY <1>1, ElementOfSeq
  <2>4. l \in Nat /\ m \in Nat /\ l # 0
    <3> HIDE DEF n, v
    <3> QED
      BY <1>1, EmptySeq
  <2> HIDE DEF n, v, l, m
  <2> QED
    BY <2>1, <2>2, <2>3, <2>4
<1>3. CASE l = 1
  <2>1. p = n \o v
    BY <1>3 DEF Pair
  <2> HIDE DEF n, v, p, l, m
  <2>2. /\ p \in Seq(Char) /\ Len(p) = 1 + m /\ p[1] = n[1] /\ p # <<>>
        /\ \A i \in 1 .. m : p[i + 1] = v[i]
    <3>1. /\ n \o v \in Seq(Char) /\ Len(n \o v) = l + m
          /\ \A i \in 1 .. l + m : (n \o v)[i] = IF i <= l THEN n[i] ELSE v[i - l]
      BY <1>2, ConcatProperties DEF l, m
    <3>2. \A i \in 1 .. m : i + 1 \in 1 .. l + m /\ ~(i + 1 <= l) /\ (i + 1) - l = i
      BY <1>2, <1>3
    <3>3. \A i \in 1 .. m : p[i + 1] = v[i]
      BY <2>1, <3>1, <3>2
    <3>4. p[1] = n[1] /\ Len(p) = 1 + m
      BY <1>2, <1>3, <2>1, <3>1
    <3>5. p # <<>>
      BY <1>2, <3>4
    <3> QED
      BY <2>1, <3>1, <3>3, <3>4, <3>5
  <2>3. p[1] \in Char /\ p[1] # Quote
    BY <1>2, <1>3, <2>2
  <2>4. <<p[1]>> = n
    BY <1>2, <1>3, <2>2, <2>3, SeqEqual DEF l
  <2>5. Tail(p) = v
    <3>1. /\ Tail(p) \in Seq(Char) /\ Len(Tail(p)) = m
          /\ \A i \in 1 .. m : Tail(p)[i] = p[i + 1]
      BY <1>2, <2>2, HeadTailProperties
    <3> QED
      BY <1>2, <2>2, <3>1, SeqEqual DEF m
  <2>6. ParseAttribute(p) = [name |-> n, value |-> v]
    BY <2>3, <2>4, <2>5 DEF ParseAttribute, Attribute
  <2> QED
    BY <1>1, <2>6 DEF p
<1>4. CASE l > 1
  <2>1. p = <<Quote>> \o n \o <<Quote>> \o v
    BY <1>4 DEF Pair
  <2> HIDE DEF n, v, p, l, m
  <2>2. /\ p \in Seq(Char) /\ Len(p) = 2 + l + m
        /\ p[1] = Quote /\ p[l + 2] = Quote
        /\ \A i \in 1 .. l : p[1 + i] = n[i]
        /\ \A i \in 1 .. m : p[l + 2 + i] = v[i]
    BY <1>2, <2>1, Quoted DEF l, m
  <2>3. \A i \in 2 .. l + 1 : p[i] = n[i - 1]
    <3>1. \A i \in 2 .. l + 1 : i - 1 \in 1 .. l /\ 1 + (i - 1) = i
      BY <1>2
    <3> QED
      BY <2>2, <3>1
  <2>4. p[1] = Quote
    BY <2>2
  <2>5. /\ p \in Seq(Char) /\ Len(p) = 2 + l + m /\ p[l + 2] = Quote
        /\ \A i \in 2 .. l + 1 : p[i] = n[i - 1]
        /\ \A i \in 1 .. m : p[l + 2 + i] = v[i]
    BY <2>2, <2>3
  <2>6. Span(p, 2, {Quote, Comma}) = l + 2
    <3>1. /\ 2 \in 1 .. Len(p) + 1 /\ l + 2 \in 2 .. Len(p) + 1
          /\ p[l + 2] \in {Quote, Comma}
      BY <1>2, <2>5
    <3>2. \A j \in 2 .. (l + 2) - 1 : p[j] \notin {Quote, Comma}
      <4>1. \A j \in 2 .. (l + 2) - 1 : j \in 2 .. l + 1 /\ j - 1 \in 1 .. l
        BY <1>2
      <4> QED
        BY <1>2, <2>5, <4>1
    <3> QED
      BY <2>5, <3>1, <3>2, SpanIs
  <2>7. SubSeq(p, 2, l + 1) = n
    <3>1. \A i \in 2 .. l + 1 : p[i] \in Char
      <4>1. \A i \in 2 .. l + 1 : i - 1 \in 1 .. l
        BY <1>2
      <4> QED
        BY <1>2, <2>5, <4>1
    <3>2. 2 \in Int /\ l + 1 \in Int /\ 2 <= l + 1
      BY <1>2
    <3>3. /\ SubSeq(p, 2, l + 1) \in Seq(Char)
          /\ Len(SubSeq(p, 2, l + 1)) = (l + 1) - 2 + 1
          /\ \A i \in 1 .. (l + 1) - 2 + 1 : SubSeq(p, 2, l + 1)[i] = p[2 + i - 1]
      BY <3>1, <3>2, SubSeqProperties
    <3>4. \A i \in 1 .. l : SubSeq(p, 2, l + 1)[i] = n[i]
      <4>1. \A i \in 1 .. l : /\ i \in 1 .. (l + 1) - 2 + 1
                              /\ 2 + i - 1 \in 2 .. l + 1 /\ (2 + i - 1) - 1 = i
        BY <1>2
      <4> QED
        BY <2>5, <3>3, <4>1
    <3>5. Len(SubSeq(p, 2, l + 1)) = l
      BY <1>2, <3>3
    <3> QED
      BY <1>2, <3>3, <3>4, <3>5, SeqEqual DEF l
  <2>8. SubSeq(p, l + 3, Len(p)) = v
    <3>1. \A i \in l + 3 .. Len(p) : p[i] \in Char
      <4>1. \A i \in l + 3 .. Len(p) : i \in 1 .. Len(p)
        BY <1>2, <2>5
      <4> QED
        BY <2>5, <4>1, ElementOfSeq
    <3>2. l + 3 \in Int /\ Len(p) \in Int /\ Len(p) - (l + 3) + 1 = m
      BY <1>2, <2>5
    <3>3. /\ SubSeq(p, l + 3, Len(p)) \in Seq(Char)
          /\ Len(SubSeq(p, l + 3, Len(p))) =
               IF l + 3 <= Len(p) THEN Len(p) - (l + 3) + 1 ELSE 0
          /\ \A i \in 1 .. Len(p) - (l + 3) + 1 :
               SubSeq(p, l + 3, Len(p))[i] = p[l + 3 + i - 1]
      BY <3>1, <3>2, SubSeqProperties
    <3>4. \A i \in 1 .. m : SubSeq(p, l + 3, Len(p))[i] = v[i]
      <4>1. \A i \in 1 .. m : l + 3 + i - 1 = l + 2 + i
        BY <1>2
      <4> QED
        BY <2>5, <3>2, <3>3, <4>1
    <3>5. Len(SubSeq(p, l + 3, Len(p))) = m
      BY <1>2, <2>5, <3>3
    <3> QED
      BY <1>2, <3>3, <3>4, <3>5, SeqEqual DEF m
  <2>9. ParseAttribute(p) = [name |-> n, value |-> v]
    <3>1. (l + 2) - 1 = l + 1 /\ (l + 2) + 1 = l + 3
      BY <1>2
    <3> QED
      BY <2>4, <2>6, <2>7, <2>8, <3>1 DEF ParseAttribute, Attribute
  <2> QED
    BY <1>1, <2>9 DEF p
<1> QED
  <2> HIDE DEF l, p
  <2> QED
    BY <1>2, <1>3, <1>4 DEF p

(* The string after k pairs begins with the string before, has the k-th    *)
(* pair after it and a comma at its end.                                   *)
LEMMA PairsGrow ==
  ASSUME NEW w \in Seq(Attr), NEW k \in 1 .. Len(w)
  PROVE  /\ w[k] \in Attr
         /\ Pairs(w)[k - 1] \in Seq(Char) /\ Pairs(w)[k] \in Seq(Char)
         /\ Pair(w[k]) \in Seq(Char \ {Comma}) /\ Len(Pair(w[k])) >= 1
         /\ Len(Pairs(w)[k]) = Len(Pairs(w)[k - 1]) + Len(Pair(w[k])) + 1
         /\ \A i \in 1 .. Len(Pairs(w)[k - 1]) : Pairs(w)[k][i] = Pairs(w)[k - 1][i]
         /\ \A i \in 1 .. Len(Pair(w[k])) :
              Pairs(w)[k][Len(Pairs(w)[k - 1]) + i] = Pair(w[k])[i]
         /\ Pairs(w)[k][Len(Pairs(w)[k])] = Comma
<1> DEFINE P == Pairs(w)
           p == Pair(w[k])
<1>1. Len(w) \in Nat /\ k - 1 \in 0 .. Len(w) /\ k \in 0 .. Len(w)
  BY LenProperties
<1>2. w[k] \in Attr
  BY ElementOfSeq
<1>3. p \in Seq(Char \ {Comma}) /\ Len(p) >= 1 /\ p \in Seq(Char)
  <2>1. p \in Seq(Char \ {Comma}) /\ Len(p) >= 1
    BY <1>2, PairType
  <2> QED
    BY <2>1, SeqMonotonic
<1> HIDE DEF p
<1>4. PICK r : r = P[k - 1]
  OBVIOUS
<1>5. PICK q : q = Append(p, Comma)
  OBVIOUS
<1>6. PICK s : s = r \o q
  OBVIOUS
<1>7. r \in Seq(Char) /\ P[k] = s
  BY <1>1, <1>4, <1>5, <1>6, PairsType DEF p
<1> HIDE DEF P
<1>8. Comma \in Char
  BY GrammarAssumption
<1>9. q \in Seq(Char)
  BY <1>3, <1>5, <1>8, AppendProperties
<1>10. /\ Len(q) = Len(p) + 1 /\ q[Len(p) + 1] = Comma
       /\ \A i \in 1 .. Len(p) : q[i] = p[i]
  BY <1>3, <1>5, <1>8, AppendProperties
<1>11. /\ s \in Seq(Char) /\ Len(s) = Len(r) + Len(q)
       /\ \A i \in 1 .. Len(r) : s[i] = r[i]
       /\ \A i \in 1 .. Len(q) : s[Len(r) + i] = q[i]
  <2>1. r \in Seq(Char)
    BY <1>7
  <2> QED
    BY <1>6, <1>9, <2>1, Concat
<1>12. PICK m \in Nat : m = Len(p)
  BY <1>3, LenProperties
<1>13. PICK l \in Nat : l = Len(r)
  BY <1>7, LenProperties
<1>14. Len(s) = l + m + 1 /\ m + 1 \in 1 .. Len(q) /\ \A i \in 1 .. m : i \in 1 .. Len(q)
  BY <1>10, <1>11, <1>12, <1>13
<1>15. s[l + (m + 1)] = Comma /\ \A i \in 1 .. m : s[l + i] = p[i]
  BY <1>10, <1>11, <1>12, <1>13, <1>14
<1>16. s[Len(s)] = Comma
  <2>1. Len(s) = l + (m + 1)
    BY <1>14
  <2> QED
    BY <1>15, <2>1
<1>17. /\ Len(s) = Len(r) + Len(p) + 1
       /\ \A i \in 1 .. Len(p) : s[Len(r) + i] = p[i]
  BY <1>12, <1>13, <1>14, <1>15
<1> QED
  BY <1>2, <1>3, <1>4, <1>7, <1>11, <1>16, <1>17 DEF P, p

(* The string after k pairs stays at the beginning.                        *)
LEMMA PairsPrefix ==
  ASSUME NEW w \in Seq(Attr), NEW k \in 0 .. Len(w),
         NEW n \in k .. Len(w), NEW P, P = Pairs(w)
  PROVE  /\ P[k] \in Seq(Char) /\ P[n] \in Seq(Char) /\ Len(P[k]) <= Len(P[n])
         /\ \A i \in 1 .. Len(P[k]) : P[n][i] = P[k][i]
<1>1. Len(w) \in Nat /\ k \in Nat
  BY LenProperties
<1>2. \A j \in 0 .. Len(w) : P[j] \in Seq(Char) /\ Len(P[j]) \in Nat
  BY PairsType, LenProperties
<1> DEFINE To(j) == /\ Len(P[k]) <= Len(P[j])
                    /\ \A i \in 1 .. Len(P[k]) : P[j][i] = P[k][i]
           S == {j \in 0 .. Len(w) : k <= j => To(j)}
<1>3. ASSUME NEW j \in 0 .. Len(w), j = k
      PROVE  To(j)
  BY <1>2, <1>3
<1>4. ASSUME NEW j \in 1 .. Len(w), k <= j - 1, To(j - 1)
      PROVE  To(j)
  <2> DEFINE q == Pair(w[j])
  <2>1. /\ q \in Seq(Char \ {Comma})
        /\ Len(P[j]) = Len(P[j - 1]) + Len(q) + 1
        /\ \A i \in 1 .. Len(P[j - 1]) : P[j][i] = P[j - 1][i]
    BY PairsGrow
  <2> HIDE DEF q
  <2>2. PICK p \in Nat : p = Len(q)
    BY <2>1, LenProperties
  <2>3. j - 1 \in 0 .. Len(w) /\ j \in 0 .. Len(w)
    BY <1>1
  <2>4. PICK b \in Nat : b = Len(P[j - 1])
    BY <1>2, <2>3
  <2>5. PICK c \in Nat : c = Len(P[k])
    BY <1>2
  <2>6. c <= b /\ Len(P[j]) = b + p + 1
    BY <1>4, <2>1, <2>2, <2>4, <2>5
  <2>7. \A i \in 1 .. c : P[j][i] = P[k][i]
    <3> SUFFICES ASSUME NEW i \in 1 .. c PROVE P[j][i] = P[k][i]
      OBVIOUS
    <3>1. i \in 1 .. b
      BY <2>6
    <3> QED
      BY <1>4, <2>1, <2>4, <2>5, <3>1
  <2>8. c <= Len(P[j])
    BY <2>6
  <2> QED
    BY <2>5, <2>7, <2>8
<1>5. 0 .. Len(w) \subseteq S
  <2> HIDE DEF To
  <2>1. 0 \in S
    BY <1>1, <1>3
  <2>2. ASSUME NEW j \in 1 .. Len(w), j - 1 \in S
        PROVE  j \in S
    <3>1. j \in 0 .. Len(w) /\ j - 1 \in 0 .. Len(w)
      BY <1>1
    <3>2. CASE k = j
      BY <1>3, <3>1, <3>2
    <3>3. CASE k <= j - 1
      BY <1>4, <2>2, <3>1, <3>3
    <3>4. CASE ~(k <= j)
      BY <3>1, <3>4
    <3> QED
      BY <1>1, <3>2, <3>3, <3>4
  <2> HIDE DEF S
  <2> QED
    BY <1>1, <2>1, <2>2, UpTo
<1>6. n \in 0 .. Len(w) /\ k <= n
  BY <1>1
<1> QED
  BY <1>2, <1>5, <1>6

(* All but the last character.                                             *)
LEMMA FrontIs ==
  ASSUME NEW S, NEW s \in Seq(S), Len(s) >= 1
  PROVE  /\ Front(s) \in Seq(S) /\ Len(Front(s)) = Len(s) - 1
         /\ \A i \in 1 .. Len(s) - 1 : Front(s)[i] = s[i]
<1>1. Len(s) \in Nat
  BY LenProperties
<1>2. \A i \in 1 .. Len(s) - 1 : s[i] \in S
  BY <1>1, ElementOfSeq
<1>3. 1 \in Int /\ Len(s) - 1 \in Int
  BY <1>1
<1>4. /\ SubSeq(s, 1, Len(s) - 1) \in Seq(S)
      /\ Len(SubSeq(s, 1, Len(s) - 1)) =
           IF 1 <= Len(s) - 1 THEN (Len(s) - 1) - 1 + 1 ELSE 0
      /\ \A i \in 1 .. (Len(s) - 1) - 1 + 1 :
           SubSeq(s, 1, Len(s) - 1)[i] = s[1 + i - 1]
  BY <1>2, <1>3, SubSeqProperties
<1>5. (Len(s) - 1) - 1 + 1 = Len(s) - 1 /\ \A i \in Nat : 1 + i - 1 = i
  BY <1>1
<1>6. Front(s) = SubSeq(s, 1, Len(s) - 1)
  BY DEF Front
<1> QED
  BY <1>1, <1>4, <1>5, <1>6

(* The parts of the string that is written from w are its pairs.           *)
LEMMA PartIsPair ==
  ASSUME NEW w \in Seq(Attr), NEW k \in 1 .. Len(w), NEW t,
         t = Front(Pairs(w)[Len(w)])
  PROVE  LET begin == Len(Pairs(w)[k - 1]) + 1
             end   == Len(Pairs(w)[k])
         IN  /\ t \in Seq(Char)
             /\ begin \in 1 .. Len(t) /\ end \in begin + 1 .. Len(t) + 1
             /\ Span(t, begin, {Comma}) = end
             /\ SubSeq(t, begin, end - 1) = Pair(w[k])
             /\ end > Len(t) <=> k = Len(w)
<1> DEFINE P == Pairs(w)
           n == Len(w)
           p == Pair(w[k])
<1>1. n \in Nat /\ k - 1 \in 0 .. n /\ k \in 1 .. n /\ n \in 1 .. n
  BY LenProperties
<1>2. /\ P[k - 1] \in Seq(Char) /\ P[k] \in Seq(Char)
      /\ p \in Seq(Char \ {Comma}) /\ Len(p) >= 1
      /\ Len(P[k]) = Len(P[k - 1]) + Len(p) + 1
      /\ \A i \in 1 .. Len(P[k - 1]) : P[k][i] = P[k - 1][i]
      /\ \A i \in 1 .. Len(p) : P[k][Len(P[k - 1]) + i] = p[i]
      /\ P[k][Len(P[k])] = Comma
  BY PairsGrow
<1>3. /\ P[n] \in Seq(Char) /\ Len(P[k]) <= Len(P[n])
      /\ \A i \in 1 .. Len(P[k]) : P[n][i] = P[k][i]
  <2>1. k \in 0 .. Len(w) /\ Len(w) \in k .. Len(w)
    BY <1>1
  <2> QED
    BY <2>1, PairsPrefix
<1>4. k < n => Len(P[k]) + 2 <= Len(P[n])
  <2> SUFFICES ASSUME k < n PROVE Len(P[k]) + 2 <= Len(P[n])
    OBVIOUS
  <2>1. k + 1 \in 1 .. Len(w) /\ (k + 1) - 1 = k
    BY <1>1
  <2>2. /\ Pair(w[k + 1]) \in Seq(Char \ {Comma})
        /\ Len(Pair(w[k + 1])) >= 1
        /\ P[k + 1] \in Seq(Char)
        /\ Len(P[(k + 1)]) = Len(P[(k + 1) - 1]) + Len(Pair(w[k + 1])) + 1
    <3> HIDE DEF P, n
    <3> QED
      BY <2>1, PairsGrow DEF P
  <2>3. Len(P[k + 1]) <= Len(P[n])
    <3>1. k + 1 \in 0 .. Len(w) /\ Len(w) \in k + 1 .. Len(w)
      BY <1>1, <2>1
    <3> QED
      BY <3>1, PairsPrefix
  <2>4. PICK q \in Nat : q = Len(Pair(w[k + 1]))
    BY <2>2, LenProperties
  <2>5. PICK b \in Nat : b = Len(P[k])
    BY <1>2, LenProperties
  <2>6. PICK c \in Nat : c = Len(P[n])
    BY <1>3, LenProperties
  <2>7. q >= 1 /\ b + q + 1 <= c
    <3>1. Len(P[k + 1]) = b + q + 1
      <4> HIDE DEF P
      <4> QED
        BY <2>1, <2>2, <2>4, <2>5
    <3> HIDE DEF P
    <3> QED
      BY <2>2, <2>3, <2>4, <2>6, <3>1
  <2>8. b + 2 <= c
    BY <2>7
  <2> QED
    BY <2>5, <2>6, <2>8
<1> HIDE DEF P, p
<1>5. PICK b \in Nat : b = Len(P[k - 1])
  BY <1>2, LenProperties
<1>6. PICK m \in Nat : m = Len(p)
  BY <1>2, LenProperties
<1>7. PICK c \in Nat : c = Len(P[n])
  BY <1>3, LenProperties
<1>8. PICK d \in Nat : d = b + m + 1
  OBVIOUS
<1>9. Len(P[k]) = d /\ m >= 1 /\ d <= c /\ (k < n => d + 2 <= c)
  BY <1>2, <1>3, <1>4, <1>5, <1>6, <1>7, <1>8
<1>10. /\ t \in Seq(Char) /\ Len(t) = c - 1
       /\ \A i \in 1 .. c - 1 : t[i] = P[n][i]
  <2>1. Len(P[n]) >= 1
    BY <1>7, <1>8, <1>9
  <2>2. t = Front(P[n])
    BY DEF P
  <2>3. /\ t \in Seq(Char) /\ Len(t) = Len(P[n]) - 1
        /\ \A i \in 1 .. Len(P[n]) - 1 : t[i] = P[n][i]
    BY <1>3, <2>1, <2>2, FrontIs
  <2> QED
    BY <1>7, <2>3
<1>11. \A i \in 1 .. m : t[b + i] = p[i] /\ p[i] \in Char \ {Comma}
  <2> SUFFICES ASSUME NEW i \in 1 .. m
               PROVE  t[b + i] = p[i] /\ p[i] \in Char \ {Comma}
    OBVIOUS
  <2>1. b + i \in 1 .. c - 1 /\ b + i \in 1 .. d
    BY <1>8, <1>9
  <2>2. t[b + i] = P[n][b + i]
    BY <1>10, <2>1
  <2>3. P[n][b + i] = P[k][b + i]
    BY <1>3, <1>9, <2>1
  <2>4. P[k][b + i] = p[i]
    BY <1>2, <1>5, <1>6
  <2>5. p[i] \in Char \ {Comma}
    BY <1>2, <1>6, ElementOfSeq
  <2> QED
    BY <2>2, <2>3, <2>4, <2>5
<1>12. d <= c - 1 => t[d] = Comma
  <2> SUFFICES ASSUME d <= c - 1 PROVE t[d] = Comma
    OBVIOUS
  <2>1. d \in 1 .. c - 1 /\ d \in 1 .. d
    BY <1>8
  <2> QED
    BY <1>2, <1>3, <1>9, <1>10, <2>1
<1>13. b + 1 \in 1 .. c - 1 /\ d \in (b + 1) + 1 .. (c - 1) + 1
  BY <1>8, <1>9
<1>14. Span(t, b + 1, {Comma}) = d
  <2>1. /\ b + 1 \in 1 .. Len(t) + 1 /\ d \in b + 1 .. Len(t) + 1
        /\ d <= Len(t) => t[d] \in {Comma}
    BY <1>10, <1>12, <1>13
  <2>2. \A j \in b + 1 .. d - 1 : t[j] \notin {Comma}
    <3> SUFFICES ASSUME NEW j \in b + 1 .. d - 1 PROVE t[j] \notin {Comma}
      OBVIOUS
    <3>1. j - b \in 1 .. m /\ b + (j - b) = j
      BY <1>8
    <3> QED
      BY <1>11, <3>1
  <2> QED
    BY <1>10, <2>1, <2>2, SpanIs
<1>15. SubSeq(t, b + 1, d - 1) = p
  <2>1. b + 1 \in Int /\ d - 1 \in Int /\ b + 1 <= d - 1
        /\ (d - 1) - (b + 1) + 1 = m
    BY <1>8, <1>9
  <2>2. \A i \in b + 1 .. d - 1 : t[i] \in Char
    <3>1. \A i \in b + 1 .. d - 1 : i \in 1 .. Len(t)
      BY <1>8, <1>9, <1>10
    <3> QED
      BY <1>10, <3>1, ElementOfSeq
  <2>3. /\ SubSeq(t, b + 1, d - 1) \in Seq(Char)
        /\ Len(SubSeq(t, b + 1, d - 1)) =
             IF b + 1 <= d - 1 THEN (d - 1) - (b + 1) + 1 ELSE 0
        /\ \A i \in 1 .. (d - 1) - (b + 1) + 1 :
             SubSeq(t, b + 1, d - 1)[i] = t[(b + 1) + i - 1]
    BY <2>1, <2>2, SubSeqProperties
  <2>4. \A i \in 1 .. m : SubSeq(t, b + 1, d - 1)[i] = p[i]
    <3> SUFFICES ASSUME NEW i \in 1 .. m
                 PROVE  SubSeq(t, b + 1, d - 1)[i] = p[i]
      OBVIOUS
    <3>1. (b + 1) + i - 1 = b + i
      BY <1>8
    <3> QED
      BY <1>11, <2>1, <2>3, <3>1
  <2>5. p \in Seq(Char)
    BY <1>2, SeqMonotonic
  <2>6. Len(SubSeq(t, b + 1, d - 1)) = Len(p)
    BY <1>6, <2>1, <2>3
  <2> DEFINE u == SubSeq(t, b + 1, d - 1)
  <2>7. \A i \in 1 .. Len(u) : u[i] = p[i]
    BY <1>6, <2>4, <2>6
  <2>8. u \in Seq(Char)
    BY <2>3
  <2> HIDE DEF u
  <2>9. u = p
    BY <2>5, <2>6, <2>7, <2>8, SeqEqual DEF u
  <2> QED
    BY <2>9 DEF u
<1>16. d > c - 1 <=> k = n
  <2>1. k = n => d = c
    BY <1>7, <1>9
  <2>2. k # n => d + 2 <= c
    BY <1>1, <1>9
  <2> QED
    BY <2>1, <2>2
<1> QED
  BY <1>5, <1>9, <1>10, <1>13, <1>14, <1>15, <1>16 DEF P, p

-----------------------------------------------------------------------------
(* The string is the one that is written from its source.                  *)
TextInv == source # NoList => text \in AttributeStrings(source)

(* Where the reader is after k attributes.                                 *)
Place(k) ==
  IF k < Len(Written(source)) THEN Len(Pairs(Written(source))[k]) + 1
  ELSE Len(text) + 1

(* While it iterates, the reader is between two attributes, has copied     *)
(* those before it, or has found the name in none of them.                 *)
ReadInv ==
  (source # NoList /\ Terminated /\ phase = "iterate") =>
    \E k \in 0 .. Len(Written(source)) :
      /\ at = Place(k)
      /\ query = All => out = SubSeq(Written(source), 1, k)
      /\ query # All => \A i \in 1 .. k : Written(source)[i].name # query

(* The inductive invariant.                                                *)
AttributesIInv ==
  /\ TypesInv /\ BoundInv /\ TextInv /\ ReadInv
  /\ RoundTrip /\ FindsFirst

(* The string a reader is at, as long as it was written from a list.       *)
LEMMA SourceText ==
  ASSUME TypesInv, TextInv, source # NoList, Terminated
  PROVE  /\ Written(source) \in Seq(Attr)
         /\ IF Written(source) = <<>> THEN text = <<>>
            ELSE text = Front(Pairs(Written(source))[Len(Written(source))])
<1>1. source \in Seq([name : AttributeName, value : AttributeValue])
  BY GrammarAssumption DEF TypesInv
<1>2. /\ Written(source) \in Seq(Attr)
      /\ source = <<>> => Written(source) = <<>>
  BY <1>1, WrittenType
<1>3. source # <<>> => Written(source) # <<>>
  BY DEF Terminated
<1> QED
  BY <1>2, <1>3 DEF TextInv, AttributeStrings

(* What the reader finds where it is.                                      *)
LEMMA AtPlace ==
  ASSUME TypesInv, TextInv, source # NoList, Terminated,
         NEW k \in 0 .. Len(Written(source)), at = Place(k)
  PROVE  /\ at <= Len(text) =>
              /\ k + 1 \in 1 .. Len(Written(source)) /\ End # at
              /\ ParseAttribute(Part) = Written(source)[k + 1]
              /\ After = Place(k + 1)
         /\ ~(at <= Len(text)) => k = Len(Written(source))
<1> DEFINE w == Written(source)
           n == Len(w)
           begin == Len(Pairs(w)[k]) + 1
           end == Len(Pairs(w)[k + 1])
<1>1. w \in Seq(Attr)
  BY SourceText
<1>2. n \in Nat /\ Len(text) \in Nat
  BY <1>1, LenProperties DEF TypesInv
<1>3. CASE k = n
  <2>1. at = Len(text) + 1
    BY <1>2, <1>3 DEF Place
  <2> QED
    BY <1>2, <1>3, <2>1
<1>4. CASE k < n
  <2>1. at = begin
    BY <1>4 DEF Place
  <2>2. k + 1 \in 1 .. n /\ (k + 1) - 1 = k
    BY <1>2, <1>4
  <2>3. w # <<>>
    BY <1>4
  <2>4. text = Front(Pairs(w)[n])
    BY <2>3, SourceText
  <2>5. /\ begin \in 1 .. Len(text) /\ end \in begin + 1 .. Len(text) + 1
        /\ Span(text, begin, {Comma}) = end
        /\ SubSeq(text, begin, end - 1) = Pair(w[k + 1])
        /\ end > Len(text) <=> k + 1 = n
    <3> HIDE DEF w
    <3>1. k + 1 \in 1 .. Len(w)
      BY <2>2
    <3>2. LET b == Len(Pairs(w)[(k + 1) - 1]) + 1
              e == Len(Pairs(w)[k + 1])
          IN  /\ b \in 1 .. Len(text) /\ e \in b + 1 .. Len(text) + 1
              /\ Span(text, b, {Comma}) = e
              /\ SubSeq(text, b, e - 1) = Pair(w[k + 1])
              /\ e > Len(text) <=> k + 1 = Len(w)
      BY <1>1, <2>4, <3>1, PartIsPair
    <3> QED
      BY <2>2, <3>2
  <2> HIDE DEF begin, end, w
  <2>6. End = end /\ Part = Pair(w[k + 1])
    BY <2>1, <2>5 DEF End, Part
  <2>7. w[k + 1] \in Attr
    BY <1>1, <2>2, ElementOfSeq
  <2>8. ParseAttribute(Part) = w[k + 1]
    BY <2>6, <2>7, ParsePair
  <2>9. After = Place(k + 1)
    <3>1. CASE k + 1 = n
      <4>1. end = Len(text) + 1
        BY <1>2, <2>5, <3>1
      <4>2. After = Len(text) + 1
        BY <1>2, <2>6, <4>1 DEF After
      <4>3. Place(k + 1) = Len(text) + 1
        BY <1>2, <3>1 DEF Place, w
      <4> QED
        BY <4>2, <4>3
    <3>2. CASE k + 1 < n
      <4>1. ~(end > Len(text))
        BY <1>2, <2>5, <3>2
      <4>2. After = end + 1
        BY <2>6, <4>1 DEF After
      <4>3. Place(k + 1) = end + 1
        BY <3>2 DEF Place, w, end
      <4> QED
        BY <4>2, <4>3
    <3> QED
      BY <1>2, <2>2, <3>1, <3>2
  <2>10. End # at /\ at <= Len(text)
    BY <1>2, <2>1, <2>5, <2>6
  <2> QED
    BY <1>4, <2>2, <2>8, <2>9, <2>10 DEF w
<1> QED
  BY <1>2, <1>3, <1>4

(* The first k of a list, and one more.                                    *)
LEMMA FirstOnes ==
  ASSUME NEW S, NEW w \in Seq(S)
  PROVE  /\ SubSeq(w, 1, 0) = <<>> /\ SubSeq(w, 1, Len(w)) = w
         /\ \A k \in 0 .. Len(w) :
              k + 1 \in 1 .. Len(w) =>
                SubSeq(w, 1, k + 1) = Append(SubSeq(w, 1, k), w[k + 1])
<1>1. Len(w) \in Nat
  BY LenProperties
<1>2. \A k \in 0 .. Len(w) :
        /\ SubSeq(w, 1, k) \in Seq(S) /\ Len(SubSeq(w, 1, k)) = k
        /\ \A i \in 1 .. k : SubSeq(w, 1, k)[i] = w[i]
  <2> SUFFICES ASSUME NEW k \in 0 .. Len(w)
               PROVE  /\ SubSeq(w, 1, k) \in Seq(S) /\ Len(SubSeq(w, 1, k)) = k
                      /\ \A i \in 1 .. k : SubSeq(w, 1, k)[i] = w[i]
    OBVIOUS
  <2>1. \A i \in 1 .. k : w[i] \in S
    BY <1>1, ElementOfSeq
  <2>2. 1 \in Int /\ k \in Int
    BY <1>1
  <2>3. /\ SubSeq(w, 1, k) \in Seq(S)
        /\ Len(SubSeq(w, 1, k)) = IF 1 <= k THEN k - 1 + 1 ELSE 0
        /\ \A i \in 1 .. k - 1 + 1 : SubSeq(w, 1, k)[i] = w[1 + i - 1]
    BY <2>1, <2>2, SubSeqProperties
  <2>4. k - 1 + 1 = k /\ (~(1 <= k) => k = 0) /\ \A i \in 1 .. k : 1 + i - 1 = i
    BY <1>1
  <2> QED
    BY <2>3, <2>4
<1>3. SubSeq(w, 1, 0) = <<>>
  BY <1>1, <1>2, EmptySeq
<1>4. SubSeq(w, 1, Len(w)) = w
  <2> DEFINE u == SubSeq(w, 1, Len(w))
  <2>1. u \in Seq(S) /\ Len(u) = Len(w) /\ \A i \in 1 .. Len(u) : u[i] = w[i]
    BY <1>1, <1>2
  <2> HIDE DEF u
  <2>2. u = w
    BY <2>1, SeqEqual
  <2> QED
    BY <2>2 DEF u
<1>5. ASSUME NEW k \in 0 .. Len(w), k + 1 \in 1 .. Len(w)
      PROVE  SubSeq(w, 1, k + 1) = Append(SubSeq(w, 1, k), w[k + 1])
  <2> DEFINE u == SubSeq(w, 1, k)
             v == SubSeq(w, 1, k + 1)
             a == Append(u, w[k + 1])
  <2>1. u \in Seq(S) /\ Len(u) = k /\ \A i \in 1 .. k : u[i] = w[i]
    BY <1>2
  <2>2. v \in Seq(S) /\ Len(v) = k + 1 /\ \A i \in 1 .. k + 1 : v[i] = w[i]
    <3>1. k + 1 \in 0 .. Len(w)
      BY <1>1, <1>5
    <3> QED
      BY <1>2, <3>1
  <2>3. w[k + 1] \in S
    BY <1>5, ElementOfSeq
  <2> HIDE DEF u, v
  <2>4. /\ a \in Seq(S) /\ Len(a) = k + 1 /\ a[k + 1] = w[k + 1]
        /\ \A i \in 1 .. k : a[i] = u[i]
    BY <2>1, <2>3, AppendProperties
  <2> HIDE DEF a
  <2>5. \A i \in 1 .. Len(v) : v[i] = a[i]
    <3> SUFFICES ASSUME NEW i \in 1 .. k + 1 PROVE v[i] = a[i]
      BY <2>2
    <3>1. i \in 1 .. k \/ i = k + 1
      BY <1>1
    <3> QED
      BY <2>1, <2>2, <2>4, <3>1
  <2>6. v = a
    BY <2>2, <2>4, <2>5, SeqEqual
  <2> QED
    BY <2>6 DEF u, v, a
<1> QED
  BY <1>3, <1>4, <1>5

-----------------------------------------------------------------------------
(* A property that comes with a string, whatever it is.                    *)
LEMMA AttributesInitIInv ==
  ASSUME AttributesInit
  PROVE  AttributesIInv
<1>1. text \in Seq(Char) /\ Len(text) \in Nat
  BY LenProperties, GrammarAssumption DEF AttributesInit
<1>2. TypesInv
  BY <1>1 DEF AttributesInit, TypesInv
<1>3. BoundInv
  <2>1. Commas(text, 0) \in Nat
    BY CommasGrow
  <2>2. at = 1 /\ out = <<>> /\ at - 1 = 0 /\ Len(out) = 0
    BY DEF AttributesInit
  <2> QED
    BY <2>1, <2>2, BytesEmpty DEF BoundInv
<1> QED
  BY <1>2, <1>3 DEF AttributesIInv, AttributesInit, TextInv, ReadInv, RoundTrip, FindsFirst

(* class_addProperty writes a new string; nobody is reading.               *)
LEMMA AddPropertyStep ==
  ASSUME AttributesIInv, NEW attrs \in AttrLists, AddProperty(attrs)
  PROVE  AttributesIInv'
<1> USE DEF AddProperty
<1>1. text' \in Seq(Char)
  <2>1. attrs \in Seq([name : AttributeName, value : AttributeValue])
    BY GrammarAssumption
  <2>2. Written(attrs) \in Seq(Attr)
    BY <2>1, WrittenType
  <2>3. CASE attrs = <<>>
    BY <2>3 DEF AttributeStrings
  <2>4. CASE attrs # <<>> /\ Written(attrs) = <<>>
    BY <2>4, GrammarAssumption DEF AttributeStrings
  <2>5. CASE attrs # <<>> /\ Written(attrs) # <<>>
    <3>1. text' = Front(Pairs(Written(attrs))[Len(Written(attrs))])
      BY <2>5 DEF AttributeStrings
    <3>2. Len(Written(attrs)) \in 1 .. Len(Written(attrs))
      BY <2>2, <2>5, EmptySeq, LenProperties
    <3> QED
      BY <2>2, <3>1, <3>2, PartIsPair
  <2> QED
    BY <2>3, <2>4, <2>5
<1>2. Len(text') \in Nat
  BY <1>1, LenProperties
<1>3. TypesInv'
  BY <1>1, <1>2 DEF AttributesIInv, TypesInv
<1>4. BoundInv'
  <2>1. Commas(text', 0) \in Nat
    BY CommasGrow
  <2>2. at' = 1 /\ out' = <<>> /\ at' - 1 = 0 /\ Len(out') = 0
    BY DEF AttributesIInv, TypesInv
  <2> QED
    BY <2>1, <2>2, BytesEmpty DEF BoundInv
<1>5. TextInv'
  BY DEF TextInv
<1> QED
  BY <1>3, <1>4, <1>5 DEF AttributesIInv, ReadInv, RoundTrip, FindsFirst

(* The reader starts before the first attribute.                           *)
LEMMA BeginCopyStep ==
  ASSUME AttributesIInv, NEW q \in Query \cup {All}, BeginCopy(q)
  PROVE  AttributesIInv'
<1> USE DEF BeginCopy
<1>1. TypesInv'
  BY DEF AttributesIInv, TypesInv
<1>2. BoundInv'
  <2>1. Commas(text, 0) \in Nat
    BY CommasGrow
  <2>2. at' = 1 /\ out' = <<>> /\ at' - 1 = 0 /\ Len(out') = 0
    OBVIOUS
  <2> QED
    BY <2>1, <2>2, BytesEmpty DEF BoundInv
<1>3. TextInv'
  BY DEF AttributesIInv, TextInv
<1>4. ReadInv'
  <2> SUFFICES ASSUME source # NoList, Terminated
               PROVE  \E k \in 0 .. Len(Written(source)) :
                        /\ at' = Place(k)'
                        /\ query' = All => out' = SubSeq(Written(source), 1, k)
                        /\ query' # All =>
                             \A i \in 1 .. k : Written(source)[i].name # query'
    BY DEF ReadInv, Terminated
  <2>1. /\ Written(source) \in Seq(Attr)
        /\ Written(source) = <<>> => text = <<>>
    BY SourceText DEF AttributesIInv
  <2>2. Len(Written(source)) \in Nat
    BY <2>1, LenProperties
  <2>3. Place(0)' = 1
    <3>1. CASE 0 < Len(Written(source))
      <4>1. Pairs(Written(source))[0] = <<>> /\ Len(<<>>) = 0
        BY <2>1, PairsType
      <4>2. source' = source
        OBVIOUS
      <4> QED
        BY <3>1, <4>1, <4>2 DEF Place
    <3>2. CASE ~(0 < Len(Written(source)))
      BY <2>1, <2>2, <3>2, EmptySeq DEF Place
    <3> QED
      BY <3>1, <3>2
  <2> QED
    BY <2>1, <2>2, <2>3, FirstOnes
<1> QED
  BY <1>1, <1>2, <1>3, <1>4 DEF AttributesIInv, RoundTrip, FindsFirst

(* Where the reader goes on there are more attributes, or none it was      *)
(* told of.                                                                *)
LEMMA ReadOn ==
  ASSUME AttributesIInv, phase = "iterate", source # NoList, Terminated
  PROVE  \E k \in 0 .. Len(Written(source)) :
           /\ query = All => out = SubSeq(Written(source), 1, k)
           /\ query # All =>
                out = <<>> /\ \A i \in 1 .. k : Written(source)[i].name # query
           /\ at <= Len(text) =>
                /\ k + 1 \in 1 .. Len(Written(source)) /\ End # at
                /\ ParseAttribute(Part) = Written(source)[k + 1]
                /\ After = Place(k + 1)
           /\ ~(at <= Len(text)) => k = Len(Written(source))
<1>1. PICK k \in 0 .. Len(Written(source)) :
        /\ at = Place(k)
        /\ query = All => out = SubSeq(Written(source), 1, k)
        /\ query # All => \A i \in 1 .. k : Written(source)[i].name # query
  BY DEF AttributesIInv, ReadInv
<1>2. query # All => out = <<>>
  BY DEF AttributesIInv, TypesInv
<1>3. /\ at <= Len(text) =>
              /\ k + 1 \in 1 .. Len(Written(source)) /\ End # at
              /\ ParseAttribute(Part) = Written(source)[k + 1]
              /\ After = Place(k + 1)
      /\ ~(at <= Len(text)) => k = Len(Written(source))
  BY <1>1, AtPlace DEF AttributesIInv
<1> QED
  BY <1>1, <1>2, <1>3

(* There is nothing to skip in a string that was written from a list.      *)
LEMMA SkipEmptyStep ==
  ASSUME AttributesIInv, SkipEmpty
  PROVE  AttributesIInv'
<1> USE DEF SkipEmpty
<1>1. /\ After \in at + 1 .. Len(text) + 1
      /\ at \in Nat /\ at >= 1
  BY EndType DEF AttributesIInv, TypesInv
<1>2. TypesInv'
  BY <1>1 DEF AttributesIInv, TypesInv
<1>3. BoundInv'
  BY BoundStep DEF AttributesIInv
<1>4. ~(source # NoList /\ Terminated)
  BY ReadOn
<1> QED
  BY <1>2, <1>3, <1>4
  DEF AttributesIInv, TextInv, ReadInv, RoundTrip, FindsFirst, Terminated

(* The attribute that is copied is the next one of the list.               *)
LEMMA CopyOneAttributeStep ==
  ASSUME AttributesIInv, CopyOneAttribute
  PROVE  AttributesIInv'
<1> USE DEF CopyOneAttribute
<1>1. /\ After \in at + 1 .. Len(text) + 1
      /\ at \in Nat /\ at >= 1
  BY EndType DEF AttributesIInv, TypesInv
<1>2. ParseAttribute(Part) \in Copied
  BY PartType DEF AttributesIInv
<1>3. out' \in Seq(Copied)
  BY <1>2, AppendProperties DEF AttributesIInv, TypesInv
<1>4. TypesInv'
  BY <1>1, <1>3 DEF AttributesIInv, TypesInv
<1>5. BoundInv'
  BY BoundStep DEF AttributesIInv
<1>6. ReadInv'
  <2> SUFFICES ASSUME source # NoList, Terminated
               PROVE  \E k \in 0 .. Len(Written(source)) :
                        /\ at' = Place(k)'
                        /\ out' = SubSeq(Written(source), 1, k)
    BY DEF ReadInv, Terminated
  <2>1. PICK k \in 0 .. Len(Written(source)) :
          /\ out = SubSeq(Written(source), 1, k)
          /\ k + 1 \in 1 .. Len(Written(source))
          /\ ParseAttribute(Part) = Written(source)[k + 1]
          /\ After = Place(k + 1)
    BY ReadOn
  <2>2. Written(source) \in Seq(Attr)
    BY SourceText DEF AttributesIInv
  <2>3. Len(Written(source)) \in Nat
    BY <2>2, LenProperties
  <2>4. k + 1 \in 0 .. Len(Written(source))
    BY <2>1, <2>3
  <2>5. out' = SubSeq(Written(source), 1, k + 1)
    <3>1. out' = Append(SubSeq(Written(source), 1, k), Written(source)[k + 1])
      BY <2>1
    <3> QED
      BY <2>1, <2>2, <3>1, FirstOnes
  <2>6. at' = Place(k + 1)'
    BY <2>1 DEF Place
  <2> QED
    BY <2>4, <2>5, <2>6
<1> QED
  BY <1>4, <1>5, <1>6 DEF AttributesIInv, TextInv, RoundTrip, FindsFirst

(* The attribute that is looked at is the next one of the list; a match is *)
(* the first of its name.                                                  *)
LEMMA FindOneAttributeStep ==
  ASSUME AttributesIInv, FindOneAttribute
  PROVE  AttributesIInv'
<1> USE DEF FindOneAttribute
<1> DEFINE a == ParseAttribute(Part)
<1>1. /\ After \in at + 1 .. Len(text) + 1
      /\ at \in Nat /\ at >= 1 /\ out = <<>>
  BY EndType DEF AttributesIInv, TypesInv
<1>2. a \in Copied
  BY PartType DEF AttributesIInv
<1>3. /\ a.name = query => out' = <<a>> /\ out' = Append(out, a) /\ phase' = "done"
      /\ a.name # query => out' = out /\ phase' = phase
  <2>1. Append(<<>>, a) = <<a>>
    OBVIOUS
  <2> HIDE DEF a
  <2> QED
    BY <1>1, <2>1 DEF Matches, a
<1>4. TypesInv'
  <2>1. out' \in Seq(Copied)
    <3> HIDE DEF a
    <3>1. <<>> \in Seq(Copied) /\ <<a>> \in Seq(Copied)
      BY <1>2
    <3>2. out' = <<a>> \/ out' = <<>>
      BY <1>1, <1>3
    <3> QED
      BY <3>1, <3>2
  <2> HIDE DEF a
  <2> QED
    BY <1>1, <1>3, <2>1 DEF AttributesIInv, TypesInv
<1>5. BoundInv'
  BY <1>3, BoundStep DEF AttributesIInv
<1>6. TextInv'
  BY DEF AttributesIInv, TextInv
<1>7. ASSUME source # NoList, Terminated
      PROVE  ReadInv' /\ RoundTrip' /\ FindsFirst'
  <2> DEFINE w == Written(source)
  <2>1. PICK k \in 0 .. Len(w) :
          /\ \A i \in 1 .. k : w[i].name # query
          /\ k + 1 \in 1 .. Len(w)
          /\ a = w[k + 1]
          /\ After = Place(k + 1)
    BY <1>7, ReadOn
  <2>2. w \in Seq(Attr)
    BY <1>7, SourceText DEF AttributesIInv
  <2>3. Len(w) \in Nat /\ DOMAIN w = 1 .. Len(w) /\ k + 1 \in 0 .. Len(w)
    BY <2>1, <2>2, LenProperties
  <2> HIDE DEF w, a
  <2>4. CASE a.name = query
    <3> DEFINE hits == {i \in DOMAIN w : w[i].name = query}
    <3>1. k + 1 \in hits /\ hits \subseteq Nat
      BY <2>1, <2>3, <2>4
    <3>2. \A i \in hits : k + 1 <= i
      BY <2>1, <2>3
    <3> HIDE DEF hits
    <3>3. Min(hits) \in hits /\ Min(hits) <= k + 1
      BY <3>1, MinOf
    <3>4. Min(hits) = k + 1 /\ hits # {}
      <4>1. PICK m : m = Min(hits)
        OBVIOUS
      <4>2. m \in Nat /\ k + 1 \in Nat /\ m <= k + 1 /\ k + 1 <= m
        BY <2>3, <3>1, <3>2, <3>3, <4>1
      <4> QED
        BY <3>1, <4>1, <4>2
    <3>5. out' = <<w[Min(hits)]>> /\ phase' = "done" /\ query' = query
      BY <1>3, <2>1, <2>4, <3>4
    <3>6. FindsFirst'
      BY <3>4, <3>5 DEF FindsFirst, hits, w
    <3>7. RoundTrip' /\ ReadInv'
      BY <3>5 DEF RoundTrip, ReadInv
    <3> QED
      BY <3>6, <3>7
  <2>5. CASE a.name # query
    <3>1. phase' = "iterate" /\ query' = query /\ query # All
      BY <1>3, <2>5
    <3>2. \A i \in 1 .. k + 1 : w[i].name # query
      BY <2>1, <2>3, <2>5
    <3>3. at' = Place(k + 1)'
      BY <2>1 DEF Place
    <3>4. ReadInv'
      BY <2>3, <3>1, <3>2, <3>3 DEF ReadInv, w
    <3> QED
      BY <3>1, <3>4 DEF RoundTrip, FindsFirst
  <2> QED
    BY <2>4, <2>5
<1>8. ASSUME ~(source # NoList /\ Terminated)
      PROVE  ReadInv' /\ RoundTrip' /\ FindsFirst'
  BY <1>8 DEF ReadInv, RoundTrip, FindsFirst, Terminated
<1> QED
  BY <1>4, <1>5, <1>6, <1>7, <1>8 DEF AttributesIInv

(* At the end of the string all attributes have been looked at.            *)
LEMMA EndOfStringStep ==
  ASSUME AttributesIInv, EndOfString
  PROVE  AttributesIInv'
<1> USE DEF EndOfString
<1>1. TypesInv'
  BY DEF AttributesIInv, TypesInv
<1>2. BoundInv' /\ TextInv' /\ ReadInv'
  BY DEF AttributesIInv, BoundInv, TextInv, ReadInv
<1>3. ASSUME source # NoList, Terminated
      PROVE  RoundTrip' /\ FindsFirst'
  <2> DEFINE w == Written(source)
  <2>1. w \in Seq(Attr)
    BY <1>3, SourceText DEF AttributesIInv
  <2>2. Len(w) \in Nat /\ DOMAIN w = 1 .. Len(w)
    BY <2>1, LenProperties
  <2>3. ~(at <= Len(text))
    BY <1>1 DEF AttributesIInv, TypesInv
  <2>4. /\ query = All => out = SubSeq(w, 1, Len(w))
        /\ query # All => out = <<>> /\ \A i \in 1 .. Len(w) : w[i].name # query
    BY <1>3, <2>3, ReadOn
  <2>5. query = All => out = w
    BY <2>1, <2>4, FirstOnes
  <2> HIDE DEF w
  <2>6. RoundTrip'
    BY <2>5 DEF RoundTrip, w
  <2>7. query # All => {i \in DOMAIN w : w[i].name = query} = {}
    BY <2>2, <2>4
  <2>8. FindsFirst'
    BY <2>4, <2>7 DEF FindsFirst, w
  <2> QED
    BY <2>6, <2>8
<1>4. ASSUME ~(source # NoList /\ Terminated)
      PROVE  RoundTrip' /\ FindsFirst'
  BY <1>4 DEF RoundTrip, FindsFirst, Terminated
<1> QED
  BY <1>1, <1>2, <1>3, <1>4 DEF AttributesIInv

(* The copy goes to the caller.                                            *)
LEMMA ReturnStep ==
  ASSUME AttributesIInv, Return
  PROVE  AttributesIInv'
<1> USE DEF Return
<1>1. text \in Seq(Char) /\ Len(text) \in Nat
  BY LenProperties DEF AttributesIInv, TypesInv
<1>2. TypesInv'
  BY <1>1 DEF AttributesIInv, TypesInv
<1>3. BoundInv'
  <2>1. Commas(text, 0) \in Nat
    BY CommasGrow
  <2>2. at' = 1 /\ out' = <<>> /\ at' - 1 = 0 /\ Len(out') = 0
    OBVIOUS
  <2> QED
    BY <2>1, <2>2, BytesEmpty DEF BoundInv
<1> QED
  BY <1>2, <1>3 DEF AttributesIInv, TextInv, ReadInv, RoundTrip, FindsFirst

(* Every step keeps the invariant.                                         *)
LEMMA AttributesInductive ==
  ASSUME AttributesIInv, [AttributesNext]_attributesVars
  PROVE  AttributesIInv'
<1>1. ASSUME NEW attrs \in AttrLists, AddProperty(attrs)
      PROVE  AttributesIInv'
  BY <1>1, AddPropertyStep
<1>2. ASSUME NEW q \in Query \cup {All}, BeginCopy(q)
      PROVE  AttributesIInv'
  BY <1>2, BeginCopyStep
<1>3. CASE SkipEmpty
  BY <1>3, SkipEmptyStep
<1>4. CASE CopyOneAttribute
  BY <1>4, CopyOneAttributeStep
<1>5. CASE FindOneAttribute
  BY <1>5, FindOneAttributeStep
<1>6. CASE EndOfString
  BY <1>6, EndOfStringStep
<1>7. CASE Return
  BY <1>7, ReturnStep
<1>8. CASE UNCHANGED attributesVars
  BY <1>8 DEF attributesVars, AttributesIInv, TypesInv, BoundInv, TextInv, ReadInv, Place,
    RoundTrip, FindsFirst, Terminated
<1> QED
  BY <1>1, <1>2, <1>3, <1>4, <1>5, <1>6, <1>7, <1>8 DEF AttributesNext, Iterate

(* What has been paid for fits into the block.                             *)
LEMMA BlockSuffices ==
  ASSUME TypesInv, BoundInv
  PROVE  WithinBlock
<1> DEFINE n == Len(text)
           c == Commas(text, n)
           d == Commas(text, at - 1)
           b == BytesOf(out)
           m == Len(out)
<1>1. n \in Nat /\ at - 1 \in 0 .. n /\ Slots(text) = c + 1
  BY SlotsAreCommas, LenProperties DEF TypesInv
<1>2. c \in Nat /\ d \in Nat /\ d <= c
  BY <1>1, CommasGrow
<1>3. m \in Nat /\ b \in Nat
  <2>1. Attribute(<<>>, <<>>) \in Copied
    BY DEF Attribute, Copied
  <2> QED
    BY <2>1, BytesAppend, LenProperties DEF TypesInv
<1>4. \/ m <= d /\ b <= (at - 1) + d
      \/ m <= c + 1 /\ b <= n + c + 2
  BY DEF BoundInv
<1>5. m <= c + 1 /\ b <= n + 2 * (c + 1)
  <2> HIDE DEF n, c, d, b, m
  <2> QED
    BY <1>1, <1>2, <1>3, <1>4
<1> QED
  BY <1>1, <1>5 DEF WithinBlock, StringBytes

(* The inductive invariant holds in every reachable state.                 *)
LEMMA AttributesInvariance == AttributesSpec => []AttributesIInv
<1>1. AttributesInit => AttributesIInv
  BY AttributesInitIInv
<1>2. AttributesIInv /\ [AttributesNext]_attributesVars => AttributesIInv'
  BY AttributesInductive
<1> QED
  BY <1>1, <1>2, PTL DEF AttributesSpec

(* Type correctness: the reader never gets past the terminator.            *)
THEOREM AttributesTypeCorrect == AttributesSpec => []AttributesTypeOK
<1>1. AttributesIInv => AttributesTypeOK
  BY DEF AttributesIInv, TypesInv, AttributesTypeOK
<1> QED
  BY <1>1, AttributesInvariance, PTL

(* property_copyAttributeList writes no more attributes, names and values  *)
(* than it has counted, whatever the string.                               *)
THEOREM BlockTheorem == AttributesSpec => []WithinBlock
<1>1. AttributesIInv => WithinBlock
  BY BlockSuffices DEF AttributesIInv
<1> QED
  BY <1>1, AttributesInvariance, PTL

(* What class_addProperty was given is what property_copyAttributeList     *)
(* gives back.                                                             *)
THEOREM RoundTripTheorem == AttributesSpec => []RoundTrip
<1>1. AttributesIInv => RoundTrip
  BY DEF AttributesIInv
<1> QED
  BY <1>1, AttributesInvariance, PTL

(* property_copyAttributeValue answers the value of the first attribute    *)
(* that has the name.                                                      *)
THEOREM FindsFirstTheorem == AttributesSpec => []FindsFirst
<1>1. AttributesIInv => FindsFirst
  BY DEF AttributesIInv
<1> QED
  BY <1>1, AttributesInvariance, PTL
=============================================================================
