-------------------------- MODULE ClassListsProofs --------------------------
(***************************************************************************)
(* Theorems about the lists of properties, protocols and methods of        *)
(* classes, for every set of classes and of threads that walk the lists,   *)
(* and every finite set of threads that add to them.                       *)
(***************************************************************************)
EXTENDS ClassLists, TLAPS, FiniteSetTheorems, SequenceTheorems,
        WellFoundedInduction

(* The lists, the labels and the frames have their types.                  *)
TypeInv ==
  /\ lists \in [Kind -> [Class -> Seq(Entry)]]
  /\ pc \in [Thread -> {"idle", "append", "rewrite", "copy", "copied"}]
  /\ DOMAIN frame = Thread

(* What holds of the frame of a thread at each label: the lists only grow  *)
(* and no entry changes its name, so what a thread has found or counted is *)
(* still there when it uses it.                                            *)
FrameAt(t) ==
  LET f == frame[t] IN
  /\ pc[t] = "idle" => f = NoFrame
  /\ pc[t] \in {"append", "rewrite"} =>
       f \in AddFrame /\ f.kind # "method" /\ t \in Registrar
  /\ pc[t] \in {"copy", "copied"} => f \in CopyFrame
  /\ pc[t] = "rewrite" => f.at \in Positions(f.kind, f.class, f.entry.item)
  /\ pc[t] = "copy" => f.count \in 1 .. Len(lists[f.kind][f.class])
  /\ pc[t] = "copied" =>
       /\ Len(f.block) = f.count
       /\ \A i, j \in DOMAIN f.block : f.block[i] = f.block[j] => i = j
       /\ \A i \in DOMAIN f.block : f.block[i] \in DOMAIN lists[f.kind][f.class]

FrameInv == \A t \in Thread : FrameAt(t)

(* The threads that have not found x in c and are about to append it.      *)
Appending(k, c, x) ==
  {t \in Thread : pc[t] = "append" /\ frame[t].kind = k
                    /\ frame[t].class = c /\ frame[t].entry.item = x}

Bound == Max({1, Cardinality(Registrar)})

(* Nobody begins to append what is there, so the declarations of an entry  *)
(* and those still to come together stay below the bound: strictly         *)
(* stronger than OncePerRegistrar, which forgets the threads in flight.    *)
CountInv ==
  \A c \in Class, x \in Item :
    /\ \A k \in {"property", "protocol"} :
         Positions(k, c, x) # {} =>
           Cardinality(Positions(k, c, x)) + Cardinality(Appending(k, c, x)) <= Bound
    /\ Cardinality(Positions("method", c, x)) <= 1

IInv == TypeInv /\ FrameInv /\ CountInv

-----------------------------------------------------------------------------
(* A nonempty set of positions contains its greatest and its least member. *)
LEMMA MinMaxInSet ==
  ASSUME NEW n \in Nat, NEW S, S \subseteq 1 .. n, S # {}
  PROVE  Min(S) \in S /\ Max(S) \in S
<1>1. Min(S) \in S
  <2> S \subseteq Nat
    OBVIOUS
  <2>1. PICK x \in S : \A y \in S : <<y, x>> \notin OpToRel(<, Nat)
    BY NatLessThanWellFounded, WFMin
  <2>2. \A y \in S : ~(y < x)
    BY <2>1, Zenon DEF OpToRel
  <2>3. \A y \in S : x =< y
    BY <2>2
  <2> QED
    BY <2>3 DEF Min
<1>2. Max(S) \in S
  <2> DEFINE D == {d \in Nat : n - d \in S}
  <2>1. D \subseteq Nat /\ D # {}
    <3>1. PICK y \in S : TRUE
      OBVIOUS
    <3>2. n - y \in Nat /\ n - (n - y) = y
      BY <3>1
    <3>3. n - y \in D
      BY <3>2
    <3> QED
      BY <3>3
  <2>2. PICK x \in D : \A y \in D : <<y, x>> \notin OpToRel(<, Nat)
    BY <2>1, NatLessThanWellFounded, WFMin
  <2>3. \A y \in D : ~(y < x)
    BY <2>2, Zenon DEF OpToRel
  <2>4. \A y \in S : n - y \in D
    OBVIOUS
  <2>5. n - x \in S /\ \A y \in S : n - x >= y
    BY <2>3, <2>4
  <2> QED
    BY <2>5 DEF Max
<1> QED
  BY <1>1, <1>2

(* The bound is a number, at least one and at least the number of threads  *)
(* that add.                                                               *)
LEMMA BoundValue ==
  /\ Bound \in Nat /\ 1 <= Bound
  /\ Cardinality(Registrar) \in Nat
  /\ Cardinality(Registrar) <= Bound
<1> DEFINE r == Cardinality(Registrar)
<1>1. r \in Nat
  BY ListsAssumption, FS_CardinalityType
<1> HIDE DEF r
<1>2. \E m \in {1, r} : \A y \in {1, r} : m >= y
  BY <1>1
<1>3. Max({1, r}) \in {1, r} /\ \A y \in {1, r} : Max({1, r}) >= y
  BY <1>2 DEF Max
<1> QED
  BY <1>1, <1>3 DEF Bound, r

-----------------------------------------------------------------------------
(* Where a list has an entry named x, and what appending and rewriting do. *)
PositionsIn(s, x) == {i \in DOMAIN s : s[i].item = x}

LEMMA AppendPositions ==
  ASSUME NEW s \in Seq(Entry), NEW e \in Entry, NEW x
  PROVE  /\ PositionsIn(s, x) \subseteq 1 .. Len(s)
         /\ e.item = x =>
              PositionsIn(Append(s, e), x) = PositionsIn(s, x) \cup {Len(s) + 1}
         /\ e.item # x => PositionsIn(Append(s, e), x) = PositionsIn(s, x)
  BY DEF PositionsIn

LEMMA RewritePositions ==
  ASSUME NEW s \in Seq(Entry), NEW e \in Entry, NEW x,
         NEW i \in PositionsIn(s, e.item)
  PROVE  /\ [s EXCEPT ![i] = e] \in Seq(Entry)
         /\ Len([s EXCEPT ![i] = e]) = Len(s)
         /\ PositionsIn([s EXCEPT ![i] = e], x) = PositionsIn(s, x)
  BY DEF PositionsIn

(* The positions of a typed list are finitely many.                        *)
LEMMA PositionsFinite ==
  ASSUME TypeInv, NEW k \in Kind, NEW c \in Class, NEW x
  PROVE  /\ Positions(k, c, x) = PositionsIn(lists[k][c], x)
         /\ Positions(k, c, x) \subseteq 1 .. Len(lists[k][c])
         /\ Len(lists[k][c]) \in Nat
         /\ IsFiniteSet(Positions(k, c, x))
         /\ Cardinality(Positions(k, c, x)) \in Nat
<1>1. lists[k][c] \in Seq(Entry)
  BY DEF TypeInv
<1>2. Positions(k, c, x) \subseteq 1 .. Len(lists[k][c])
  BY <1>1 DEF Positions
<1>3. IsFiniteSet(1 .. Len(lists[k][c]))
  BY <1>1, FS_Interval
<1> QED
  BY <1>1, <1>2, <1>3, FS_Subset, FS_CardinalityType DEF Positions, PositionsIn

(* The threads that append are registrars, so finitely many.               *)
LEMMA AppendingFinite ==
  ASSUME FrameInv, NEW k, NEW c, NEW x
  PROVE  /\ Appending(k, c, x) \subseteq Registrar
         /\ IsFiniteSet(Appending(k, c, x))
         /\ Cardinality(Appending(k, c, x)) \in Nat
         /\ Cardinality(Appending(k, c, x)) <= Cardinality(Registrar)
<1>1. Appending(k, c, x) \subseteq Registrar
  BY DEF FrameInv, FrameAt, Appending
<1> QED
  BY <1>1, ListsAssumption, FS_Subset, FS_CardinalityType

-----------------------------------------------------------------------------
(* What no step takes away: the length of a list and the places of a name. *)
Grown ==
  \A k \in Kind, c \in Class :
    /\ Len(lists[k][c]) <= Len(lists'[k][c])
    /\ \A x : Positions(k, c, x) \subseteq Positions(k, c, x)'

LEMMA UnchangedGrown ==
  ASSUME TypeInv, lists' = lists
  PROVE  Grown /\ \A k, c, x : Positions(k, c, x)' = Positions(k, c, x)
  BY DEF TypeInv, Grown, Positions

(* A thread that did nothing still has what it found or counted.           *)
LEMMA FrameKept ==
  ASSUME TypeInv, TypeInv', Grown, NEW t \in Thread, FrameAt(t),
         pc'[t] = pc[t], frame'[t] = frame[t]
  PROVE  FrameAt(t)'
<1> DEFINE f == frame[t]
<1>1. /\ pc[t] = "idle" => f = NoFrame
      /\ pc[t] \in {"append", "rewrite"} =>
           f \in AddFrame /\ f.kind # "method" /\ t \in Registrar
      /\ pc[t] \in {"copy", "copied"} => f \in CopyFrame
  BY DEF FrameAt
<1>2. ASSUME pc[t] = "rewrite"
      PROVE  f.at \in Positions(f.kind, f.class, f.entry.item)'
  <2>1. f.kind \in Kind /\ f.class \in Class
    BY <1>1, <1>2 DEF AddFrame
  <2> QED
    BY <1>2, <2>1 DEF FrameAt, Grown
<1>3. ASSUME pc[t] \in {"copy", "copied"}
      PROVE  /\ f.kind \in Kind /\ f.class \in Class
             /\ f.count \in Nat
             /\ 1 .. Len(lists[f.kind][f.class]) \subseteq
                  1 .. Len(lists'[f.kind][f.class])
             /\ DOMAIN lists[f.kind][f.class] \subseteq
                  DOMAIN lists'[f.kind][f.class]
  <2>1. f.kind \in Kind /\ f.class \in Class /\ f.count \in Nat
    BY <1>1, <1>3 DEF CopyFrame
  <2>2. /\ lists[f.kind][f.class] \in Seq(Entry)
        /\ lists'[f.kind][f.class] \in Seq(Entry)
    BY <2>1 DEF TypeInv
  <2>3. Len(lists[f.kind][f.class]) <= Len(lists'[f.kind][f.class])
    BY <2>1 DEF Grown
  <2> QED
    BY <2>1, <2>2, <2>3
<1>4. ASSUME pc[t] = "copy"
      PROVE  f.count \in 1 .. Len(lists'[f.kind][f.class])
  BY <1>3, <1>4 DEF FrameAt
<1>5. ASSUME pc[t] = "copied"
      PROVE  /\ Len(f.block) = f.count
             /\ \A i, j \in DOMAIN f.block : f.block[i] = f.block[j] => i = j
             /\ \A i \in DOMAIN f.block :
                  f.block[i] \in DOMAIN lists'[f.kind][f.class]
  BY <1>3, <1>5 DEF FrameAt
<1> QED
  BY <1>1, <1>2, <1>4, <1>5 DEF FrameAt

(* Where the places of a name stay and nobody new is about to append it,   *)
(* the count stays within its bound.                                       *)
LEMMA CountKept ==
  ASSUME FrameInv, TypeInv, NEW k \in {"property", "protocol"},
         NEW c \in Class, NEW x \in Item, CountInv,
         Positions(k, c, x)' = Positions(k, c, x),
         Appending(k, c, x)' \subseteq Appending(k, c, x)
  PROVE  Positions(k, c, x)' # {} =>
           Cardinality(Positions(k, c, x)') + Cardinality(Appending(k, c, x)')
             <= Bound
<1>1. k \in Kind
  BY DEF Kind
<1>2. /\ Cardinality(Positions(k, c, x)) \in Nat
      /\ IsFiniteSet(Appending(k, c, x))
      /\ Cardinality(Appending(k, c, x)) \in Nat
  BY <1>1, PositionsFinite, AppendingFinite
<1>3. /\ Cardinality(Appending(k, c, x)') \in Nat
      /\ Cardinality(Appending(k, c, x)') <= Cardinality(Appending(k, c, x))
  BY <1>2, FS_Subset, FS_CardinalityType
<1>4. Positions(k, c, x) # {} =>
        Cardinality(Positions(k, c, x)) + Cardinality(Appending(k, c, x)) <= Bound
  BY DEF CountInv
<1>5. Cardinality(Positions(k, c, x)') = Cardinality(Positions(k, c, x))
  OBVIOUS
<1> QED
  BY <1>2, <1>3, <1>4, <1>5, BoundValue

-----------------------------------------------------------------------------
LEMMA InitIInv == Init => IInv
<1> SUFFICES ASSUME Init
             PROVE  IInv
  OBVIOUS
<1>1. TypeInv
  BY ListsAssumption DEF Init, TypeInv
<1>2. FrameInv
  BY DEF Init, FrameInv, FrameAt
<1>3. CountInv
  <2> SUFFICES ASSUME NEW c \in Class, NEW x \in Item, NEW k \in Kind
               PROVE  /\ Cardinality(Positions(k, c, x)) \in Nat
                      /\ Cardinality(Positions(k, c, x)) <= 1
                      /\ Cardinality(Appending(k, c, x)) = 0
    BY BoundValue DEF CountInv, Kind
  <2>1. Appending(k, c, x) = {}
    BY DEF Init, Appending
  <2>2. /\ IsFiniteSet(Positions(k, c, x))
        /\ Cardinality(Positions(k, c, x)) \in Nat
    BY <1>1, PositionsFinite
  <2>3. \A i, j \in Positions(k, c, x) : i = j
    BY ListsAssumption DEF Init, Positions
  <2>4. \/ Positions(k, c, x) = {}
        \/ \E i : Positions(k, c, x) = {i}
    BY <2>3
  <2> QED
    BY <2>1, <2>2, <2>4, FS_EmptySet, FS_Singleton
<1> QED
  BY <1>1, <1>2, <1>3 DEF IInv

-----------------------------------------------------------------------------
(* A step of one thread that leaves the lists alone and does not begin to  *)
(* append: the thread's new frame is all there is to show.                 *)
LEMMA WalkStep ==
  ASSUME IInv, NEW t \in Thread, lists' = lists,
         NEW label \in {"idle", "rewrite", "copy", "copied"}, NEW f,
         pc' = [pc EXCEPT ![t] = label], frame' = [frame EXCEPT ![t] = f],
         FrameAt(t)'
  PROVE  IInv'
<1> USE DEF IInv
<1>1. TypeInv'
  BY DEF TypeInv
<1>2. ASSUME NEW u \in Thread, u # t
      PROVE  pc'[u] = pc[u] /\ frame'[u] = frame[u]
  BY <1>2 DEF TypeInv
<1>3. FrameInv'
  <2> SUFFICES ASSUME NEW u \in Thread
               PROVE  FrameAt(u)'
    BY DEF FrameInv
  <2>1. CASE u = t
    BY <2>1
  <2>2. CASE u # t
    <3>1. FrameAt(u) /\ Grown
      BY UnchangedGrown DEF FrameInv
    <3> QED
      BY <1>1, <1>2, <2>2, <3>1, FrameKept
  <2> QED
    BY <2>1, <2>2
<1>4. CountInv'
  <2> SUFFICES ASSUME NEW c \in Class, NEW x \in Item
               PROVE  /\ \A k \in {"property", "protocol"} :
                           Positions(k, c, x)' # {} =>
                             Cardinality(Positions(k, c, x)')
                               + Cardinality(Appending(k, c, x)') <= Bound
                      /\ Cardinality(Positions("method", c, x)') <= 1
    BY DEF CountInv, Bound
  <2>1. \A k : Positions(k, c, x)' = Positions(k, c, x)
    BY UnchangedGrown
  <2>2. ASSUME NEW k
        PROVE  Appending(k, c, x)' \subseteq Appending(k, c, x)
    <3> SUFFICES ASSUME NEW u \in Thread, pc'[u] = "append",
                        frame'[u].kind = k, frame'[u].class = c,
                        frame'[u].entry.item = x
                 PROVE  u \in Appending(k, c, x)
      BY DEF Appending
    <3>1. u # t
      BY DEF TypeInv
    <3> QED
      BY <1>2, <3>1 DEF Appending
  <2>3. \A k \in {"property", "protocol"} :
          Positions(k, c, x)' # {} =>
            Cardinality(Positions(k, c, x)') + Cardinality(Appending(k, c, x)')
              <= Bound
    BY <2>1, <2>2, CountKept
  <2>4. Cardinality(Positions("method", c, x)') <= 1
    BY <2>1 DEF CountInv
  <2> QED
    BY <2>3, <2>4
<1> QED
  BY <1>1, <1>3, <1>4

(* A thread begins to append what it has not found.                        *)
LEMMA BeginStep ==
  ASSUME IInv, NEW t \in Registrar, lists' = lists,
         NEW k \in {"property", "protocol"}, NEW c \in Class, NEW x \in Item,
         NEW a \in Attributes \cup {NoAttributes},
         Positions(k, c, x) = {},
         Enter(t, "append", Adding(k, c, x, a))
  PROVE  IInv'
<1> USE DEF IInv
<1>1. t \in Thread
  BY ListsAssumption
<1>2. TypeInv'
  BY DEF TypeInv, Enter, Goto
<1>3. ASSUME NEW u \in Thread, u # t
      PROVE  pc'[u] = pc[u] /\ frame'[u] = frame[u]
  BY <1>3 DEF TypeInv, Enter, Goto
<1>4. pc'[t] = "append" /\ frame'[t] = Adding(k, c, x, a)
  BY <1>1 DEF TypeInv, Enter, Goto
<1>5. FrameInv'
  <2> SUFFICES ASSUME NEW u \in Thread
               PROVE  FrameAt(u)'
    BY DEF FrameInv
  <2>1. CASE u = t
    <3>1. frame'[t] \in AddFrame /\ frame'[t].kind # "method"
      BY <1>4 DEF Adding, AddFrame, Entry, Kind
    <3> QED
      BY <1>4, <2>1, <3>1 DEF FrameAt
  <2>2. CASE u # t
    <3>1. FrameAt(u) /\ Grown
      BY UnchangedGrown DEF FrameInv
    <3> QED
      BY <1>2, <1>3, <2>2, <3>1, FrameKept
  <2> QED
    BY <2>1, <2>2
<1>6. CountInv'
  <2> SUFFICES ASSUME NEW d \in Class, NEW y \in Item
               PROVE  /\ \A l \in {"property", "protocol"} :
                           Positions(l, d, y)' # {} =>
                             Cardinality(Positions(l, d, y)')
                               + Cardinality(Appending(l, d, y)') <= Bound
                      /\ Cardinality(Positions("method", d, y)') <= 1
    BY DEF CountInv, Bound
  <2>1. \A l : Positions(l, d, y)' = Positions(l, d, y)
    BY UnchangedGrown
  <2>2. ASSUME NEW l \in {"property", "protocol"}, Positions(l, d, y)' # {}
        PROVE  Cardinality(Positions(l, d, y)')
                 + Cardinality(Appending(l, d, y)') <= Bound
    <3>1. ~(l = k /\ d = c /\ y = x)
      BY <2>1, <2>2
    <3>2. Appending(l, d, y)' \subseteq Appending(l, d, y)
      <4> SUFFICES ASSUME NEW u \in Thread, pc'[u] = "append",
                          frame'[u].kind = l, frame'[u].class = d,
                          frame'[u].entry.item = y
                   PROVE  u \in Appending(l, d, y)
        BY DEF Appending
      <4>1. u # t
        BY <1>4, <3>1 DEF Adding
      <4> QED
        BY <1>3, <4>1 DEF Appending
    <3> QED
      BY <2>1, <2>2, <3>2, CountKept
  <2>3. Cardinality(Positions("method", d, y)') <= 1
    BY <2>1 DEF CountInv
  <2> QED
    BY <2>2, <2>3
<1> QED
  BY <1>2, <1>5, <1>6

-----------------------------------------------------------------------------
(* One entry more in one list.                                             *)
AppendTo(k, c, e) == lists' = [lists EXCEPT ![k][c] = Append(@, e)]

LEMMA AppendGrown ==
  ASSUME TypeInv, NEW k \in Kind, NEW c \in Class, NEW e \in Entry,
         AppendTo(k, c, e)
  PROVE  /\ lists' \in [Kind -> [Class -> Seq(Entry)]]
         /\ Grown
         /\ \A l \in Kind, d \in Class : \A y :
              Positions(l, d, y)' =
                IF l = k /\ d = c /\ y = e.item
                THEN Positions(l, d, y) \cup {Len(lists[k][c]) + 1}
                ELSE Positions(l, d, y)
<1>1. \A l \in Kind, d \in Class :
        /\ lists[l][d] \in Seq(Entry)
        /\ lists'[l][d] = IF l = k /\ d = c THEN Append(lists[l][d], e)
                                            ELSE lists[l][d]
  BY DEF TypeInv, AppendTo
<1>2. lists' \in [Kind -> [Class -> Seq(Entry)]]
  <2>1. Append(lists[k][c], e) \in Seq(Entry)
    BY <1>1
  <2> QED
    BY <2>1 DEF TypeInv, AppendTo
<1>3. \A l \in Kind, d \in Class : Len(lists[l][d]) <= Len(lists'[l][d])
  <2> SUFFICES ASSUME NEW l \in Kind, NEW d \in Class
               PROVE  Len(lists[l][d]) <= Len(lists'[l][d])
    OBVIOUS
  <2>1. lists[l][d] \in Seq(Entry)
    BY <1>1
  <2>2. CASE l = k /\ d = c
    <3>1. lists'[l][d] = Append(lists[l][d], e)
      BY <1>1, <2>2
    <3>2. Len(Append(lists[l][d], e)) = Len(lists[l][d]) + 1
      BY <2>1
    <3> QED
      BY <2>1, <3>1, <3>2
  <2>3. CASE ~(l = k /\ d = c)
    BY <1>1, <2>1, <2>3
  <2> QED
    BY <2>2, <2>3
<1>4. \A l \in Kind, d \in Class : \A y :
        /\ Positions(l, d, y) = PositionsIn(lists[l][d], y)
        /\ Positions(l, d, y)' = PositionsIn(lists'[l][d], y)
  BY DEF Positions, PositionsIn
<1>5. \A l \in Kind, d \in Class : \A y :
        Positions(l, d, y)' =
          IF l = k /\ d = c /\ y = e.item
          THEN Positions(l, d, y) \cup {Len(lists[k][c]) + 1}
          ELSE Positions(l, d, y)
  <2> SUFFICES ASSUME NEW l \in Kind, NEW d \in Class, NEW y
               PROVE  Positions(l, d, y)' =
                        IF l = k /\ d = c /\ y = e.item
                        THEN Positions(l, d, y) \cup {Len(lists[k][c]) + 1}
                        ELSE Positions(l, d, y)
    OBVIOUS
  <2>a. /\ Positions(l, d, y) = PositionsIn(lists[l][d], y)
        /\ Positions(l, d, y)' = PositionsIn(lists'[l][d], y)
    BY <1>4
  <2>1. CASE l = k /\ d = c
    <3>1. lists[k][c] \in Seq(Entry) /\ lists'[l][d] = Append(lists[k][c], e)
      BY <1>1, <2>1
    <3>2. /\ e.item = y =>
               PositionsIn(Append(lists[k][c], e), y) =
                 PositionsIn(lists[k][c], y) \cup {Len(lists[k][c]) + 1}
          /\ e.item # y =>
               PositionsIn(Append(lists[k][c], e), y) = PositionsIn(lists[k][c], y)
      BY <3>1, AppendPositions
    <3> QED
      BY <2>1, <2>a, <3>1, <3>2
  <2>2. CASE ~(l = k /\ d = c)
    BY <1>1, <2>a, <2>2
  <2> QED
    BY <2>1, <2>2
<1> QED
  BY <1>2, <1>3, <1>5 DEF Grown

(* A list with one entry is added: the entry moves from those still to     *)
(* come to those declared.                                                 *)
LEMMA AddEntryStep ==
  ASSUME IInv, NEW t \in Thread, AddEntry(t)
  PROVE  IInv'
<1> USE DEF IInv
<1>0. /\ pc[t] = "append"
      /\ lists' = [lists EXCEPT ![frame[t].kind][frame[t].class] =
                     Append(@, frame[t].entry)]
      /\ pc' = [pc EXCEPT ![t] = "idle"]
      /\ frame' = [frame EXCEPT ![t] = NoFrame]
  BY DEF AddEntry, Return, Goto
<1>1. /\ frame[t].kind \in {"property", "protocol"} /\ frame[t].class \in Class
      /\ frame[t].entry \in Entry /\ t \in Registrar
  BY <1>0 DEF FrameInv, FrameAt, AddFrame, Kind
<1>2. PICK k \in {"property", "protocol"}, c \in Class, e \in Entry :
        k = frame[t].kind /\ c = frame[t].class /\ e = frame[t].entry
  BY <1>1
<1> DEFINE x == e.item
<1>a. k \in Kind /\ x \in Item
  BY DEF Kind, Entry
<1> HIDE DEF x
<1>3. /\ lists' \in [Kind -> [Class -> Seq(Entry)]]
      /\ Grown
      /\ \A l \in Kind, d \in Class : \A y :
           Positions(l, d, y)' =
             IF l = k /\ d = c /\ y = x
             THEN Positions(l, d, y) \cup {Len(lists[k][c]) + 1}
             ELSE Positions(l, d, y)
  <2>1. AppendTo(k, c, e)
    BY <1>0, <1>2 DEF AppendTo
  <2> QED
    BY <1>a, <2>1, AppendGrown DEF x
<1>4. TypeInv'
  BY <1>0, <1>3 DEF TypeInv
<1>5. /\ \A u \in Thread : u # t => pc'[u] = pc[u] /\ frame'[u] = frame[u]
      /\ pc'[t] = "idle" /\ frame'[t] = NoFrame
  BY <1>0 DEF TypeInv
<1>6. FrameInv'
  <2> SUFFICES ASSUME NEW u \in Thread
               PROVE  FrameAt(u)'
    BY DEF FrameInv
  <2>1. CASE u = t
    BY <1>5, <2>1 DEF FrameAt
  <2>2. CASE u # t
    <3>1. FrameAt(u)
      BY DEF FrameInv
    <3> QED
      BY <1>3, <1>4, <1>5, <2>2, <3>1, FrameKept
  <2> QED
    BY <2>1, <2>2
<1>7. t \in Appending(k, c, x)
  BY <1>0, <1>2 DEF Appending, x
<1>8. \A l, d, y : Appending(l, d, y)' \subseteq Appending(l, d, y) \ {t}
  <2> SUFFICES ASSUME NEW l, NEW d, NEW y, NEW u \in Thread,
                      pc'[u] = "append", frame'[u].kind = l,
                      frame'[u].class = d, frame'[u].entry.item = y
               PROVE  u \in Appending(l, d, y) \ {t}
    BY DEF Appending
  <2>1. u # t
    BY <1>5
  <2> QED
    BY <1>5, <2>1 DEF Appending
<1>9. CountInv'
  <2> SUFFICES ASSUME NEW d \in Class, NEW y \in Item
               PROVE  /\ \A l \in {"property", "protocol"} :
                           Positions(l, d, y)' # {} =>
                             Cardinality(Positions(l, d, y)')
                               + Cardinality(Appending(l, d, y)') <= Bound
                      /\ Cardinality(Positions("method", d, y)') <= 1
    BY DEF CountInv, Bound
  <2>1. ASSUME NEW l \in {"property", "protocol"}, Positions(l, d, y)' # {},
               ~(l = k /\ d = c /\ y = x)
        PROVE  Cardinality(Positions(l, d, y)')
                 + Cardinality(Appending(l, d, y)') <= Bound
    <3>1. l \in Kind
      BY DEF Kind
    <3>2. Positions(l, d, y)' = Positions(l, d, y)
      BY <1>3, <2>1, <3>1
    <3>3. Appending(l, d, y)' \subseteq Appending(l, d, y)
      BY <1>8
    <3> QED
      BY <2>1, <3>2, <3>3, CountKept
  <2>2. Cardinality(Positions(k, c, x)') + Cardinality(Appending(k, c, x)') <= Bound
    <3> DEFINE P == Positions(k, c, x)
    <3> DEFINE W == Appending(k, c, x)
    <3>1. /\ IsFiniteSet(P) /\ Cardinality(P) \in Nat
          /\ IsFiniteSet(W) /\ Cardinality(W) \in Nat
          /\ Cardinality(W) <= Cardinality(Registrar)
      BY <1>a, PositionsFinite, AppendingFinite
    <3>2. /\ Cardinality(Positions(k, c, x)') \in Nat
          /\ Cardinality(Positions(k, c, x)') <= Cardinality(P) + 1
      <4>1. Positions(k, c, x)' = P \cup {Len(lists[k][c]) + 1}
        BY <1>a, <1>3
      <4> DEFINE n == Len(lists[k][c]) + 1
      <4>2. /\ IsFiniteSet(P \cup {n})
            /\ Cardinality(P \cup {n}) =
                 IF n \in P THEN Cardinality(P) ELSE Cardinality(P) + 1
        BY <3>1, FS_AddElement
      <4> QED
        BY <3>1, <4>1, <4>2
    <3>3. /\ Cardinality(Appending(k, c, x)') \in Nat
          /\ Cardinality(Appending(k, c, x)') <= Cardinality(W) - 1
      <4>1. IsFiniteSet(W \ {t}) /\ Cardinality(W \ {t}) = Cardinality(W) - 1
        BY <1>7, <3>1, FS_RemoveElement
      <4>2. Appending(k, c, x)' \subseteq W \ {t}
        BY <1>8
      <4> QED
        BY <4>1, <4>2, FS_Subset, FS_CardinalityType
    <3>4. CASE P = {}
      <4>1. Cardinality(P) = 0
        BY <3>4, FS_EmptySet
      <4> QED
        BY <3>1, <3>2, <3>3, <4>1, BoundValue
    <3>5. CASE P # {}
      <4>1. Cardinality(P) + Cardinality(W) <= Bound
        BY <1>a, <3>5 DEF CountInv
      <4> QED
        BY <3>1, <3>2, <3>3, <4>1, BoundValue
    <3> QED
      BY <3>4, <3>5
  <2>3. Cardinality(Positions("method", d, y)') <= 1
    <3>1. Positions("method", d, y)' = Positions("method", d, y)
      BY <1>a, <1>3 DEF Kind
    <3> QED
      BY <3>1 DEF CountInv
  <2>4. ASSUME NEW l \in {"property", "protocol"}, Positions(l, d, y)' # {}
        PROVE  Cardinality(Positions(l, d, y)')
                 + Cardinality(Appending(l, d, y)') <= Bound
    BY <2>1, <2>2, <2>4
  <2> QED
    BY <2>3, <2>4
<1> QED
  BY <1>4, <1>6, <1>9

-----------------------------------------------------------------------------
(* class_addMethod adds where there is none, so there is one.              *)
LEMMA AddMethodStep ==
  ASSUME IInv, NEW c \in Class, NEW x \in Item, AddMethod(c, x)
  PROVE  IInv'
<1> USE DEF IInv
<1> DEFINE e == [item |-> x, attributes |-> NoAttributes]
<1>1. /\ "method" \in Kind /\ e \in Entry /\ e.item = x
      /\ AppendTo("method", c, e)
      /\ Positions("method", c, x) = {}
      /\ UNCHANGED <<pc, frame>>
  BY DEF AddMethod, AppendTo, Kind, Entry
<1> HIDE DEF e
<1>2. /\ lists' \in [Kind -> [Class -> Seq(Entry)]]
      /\ Grown
      /\ \A l \in Kind, d \in Class : \A y :
           Positions(l, d, y)' =
             IF l = "method" /\ d = c /\ y = e.item
             THEN Positions(l, d, y) \cup {Len(lists["method"][c]) + 1}
             ELSE Positions(l, d, y)
  BY <1>1, AppendGrown
<1>3. TypeInv'
  BY <1>1, <1>2 DEF TypeInv
<1>4. FrameInv'
  BY <1>1, <1>2, <1>3, FrameKept DEF FrameInv
<1>5. CountInv'
  <2> SUFFICES ASSUME NEW d \in Class, NEW y \in Item
               PROVE  /\ \A l \in {"property", "protocol"} :
                           Positions(l, d, y)' # {} =>
                             Cardinality(Positions(l, d, y)')
                               + Cardinality(Appending(l, d, y)') <= Bound
                      /\ Cardinality(Positions("method", d, y)') <= 1
    BY DEF CountInv, Bound
  <2>1. ASSUME NEW l \in {"property", "protocol"}
        PROVE  Positions(l, d, y)' # {} =>
                 Cardinality(Positions(l, d, y)')
                   + Cardinality(Appending(l, d, y)') <= Bound
    <3>1. Positions(l, d, y)' = Positions(l, d, y)
      BY <1>2 DEF Kind
    <3>2. Appending(l, d, y)' \subseteq Appending(l, d, y)
      BY <1>1 DEF Appending
    <3> QED
      BY <3>1, <3>2, CountKept
  <2>2. ASSUME d = c, y = x
        PROVE  Cardinality(Positions("method", d, y)') <= 1
    <3>1. Positions("method", d, y)' = {Len(lists["method"][c]) + 1}
      BY <1>1, <1>2, <2>2
    <3>2. Cardinality({Len(lists["method"][c]) + 1}) = 1
      BY FS_Singleton
    <3>3. Cardinality(Positions("method", d, y)') = 1
      BY <3>1, <3>2, Zenon
    <3> QED
      BY <3>3
  <2>3. ASSUME ~(d = c /\ y = x)
        PROVE  Cardinality(Positions("method", d, y)') <= 1
    <3>1. Positions("method", d, y)' = Positions("method", d, y)
      BY <1>1, <1>2, <2>3
    <3> QED
      BY <3>1 DEF CountInv
  <2> QED
    BY <2>1, <2>2, <2>3
<1> QED
  BY <1>3, <1>4, <1>5

(* A rewrite keeps the name of the entry it goes to.                       *)
LEMMA RewriteStep ==
  ASSUME IInv, NEW t \in Thread, Rewrite(t)
  PROVE  IInv'
<1> USE DEF IInv
<1>1. /\ pc[t] = "rewrite"
      /\ lists' = [lists EXCEPT ![frame[t].kind][frame[t].class][frame[t].at] =
                     frame[t].entry]
      /\ pc' = [pc EXCEPT ![t] = "idle"]
      /\ frame' = [frame EXCEPT ![t] = NoFrame]
  BY DEF Rewrite, Return, Goto
<1>2. /\ frame[t].kind \in Kind /\ frame[t].class \in Class
      /\ frame[t].entry \in Entry
      /\ frame[t].at \in
           Positions(frame[t].kind, frame[t].class, frame[t].entry.item)
  BY <1>1 DEF FrameInv, FrameAt, AddFrame
<1>3. PICK k \in Kind, c \in Class, e \in Entry,
           i \in Positions(frame[t].kind, frame[t].class, frame[t].entry.item) :
        /\ k = frame[t].kind /\ c = frame[t].class
        /\ e = frame[t].entry /\ i = frame[t].at
  BY <1>2
<1>4. lists[k][c] \in Seq(Entry) /\ i \in PositionsIn(lists[k][c], e.item)
  BY <1>2, <1>3 DEF TypeInv, Positions, PositionsIn
<1>5. /\ lists' = [lists EXCEPT ![k] =
                     [lists[k] EXCEPT ![c] = [lists[k][c] EXCEPT ![i] = e]]]
  BY <1>1, <1>3 DEF TypeInv
<1>6. /\ [lists[k][c] EXCEPT ![i] = e] \in Seq(Entry)
      /\ Len([lists[k][c] EXCEPT ![i] = e]) = Len(lists[k][c])
      /\ \A y : PositionsIn([lists[k][c] EXCEPT ![i] = e], y)
                  = PositionsIn(lists[k][c], y)
  BY <1>4, RewritePositions
<1>7. /\ lists' \in [Kind -> [Class -> Seq(Entry)]]
      /\ \A l \in Kind, d \in Class :
           lists'[l][d] = IF l = k /\ d = c
                          THEN [lists[k][c] EXCEPT ![i] = e] ELSE lists[l][d]
  BY <1>5, <1>6 DEF TypeInv
<1>8. \A l \in Kind, d \in Class :
        /\ Len(lists'[l][d]) = Len(lists[l][d])
        /\ \A y : Positions(l, d, y)' = Positions(l, d, y)
  <2> SUFFICES ASSUME NEW l \in Kind, NEW d \in Class
               PROVE  /\ Len(lists'[l][d]) = Len(lists[l][d])
                      /\ \A y : Positions(l, d, y)' = Positions(l, d, y)
    OBVIOUS
  <2>1. \A y : /\ Positions(l, d, y) = PositionsIn(lists[l][d], y)
               /\ Positions(l, d, y)' = PositionsIn(lists'[l][d], y)
    BY DEF Positions, PositionsIn
  <2> QED
    BY <1>6, <1>7, <2>1
<1>9. TypeInv'
  BY <1>1, <1>7 DEF TypeInv
<1>10. Grown
  <2>1. \A l \in Kind, d \in Class : Len(lists[l][d]) \in Nat
    BY DEF TypeInv
  <2> QED
    BY <1>8, <2>1 DEF Grown
<1>11. /\ \A u \in Thread : u # t => pc'[u] = pc[u] /\ frame'[u] = frame[u]
       /\ pc'[t] = "idle" /\ frame'[t] = NoFrame
  BY <1>1 DEF TypeInv
<1>12. FrameInv'
  <2> SUFFICES ASSUME NEW u \in Thread
               PROVE  FrameAt(u)'
    BY DEF FrameInv
  <2>1. CASE u = t
    BY <1>11, <2>1 DEF FrameAt
  <2>2. CASE u # t
    <3>1. FrameAt(u)
      BY DEF FrameInv
    <3> QED
      BY <1>9, <1>10, <1>11, <2>2, <3>1, FrameKept
  <2> QED
    BY <2>1, <2>2
<1>13. CountInv'
  <2> SUFFICES ASSUME NEW d \in Class, NEW y \in Item
               PROVE  /\ \A l \in {"property", "protocol"} :
                           Positions(l, d, y)' # {} =>
                             Cardinality(Positions(l, d, y)')
                               + Cardinality(Appending(l, d, y)') <= Bound
                      /\ Cardinality(Positions("method", d, y)') <= 1
    BY DEF CountInv, Bound
  <2>1. \A l \in Kind : Positions(l, d, y)' = Positions(l, d, y)
    BY <1>8
  <2>2. \A l : Appending(l, d, y)' \subseteq Appending(l, d, y)
    BY <1>11 DEF Appending
  <2>3. ASSUME NEW l \in {"property", "protocol"}
        PROVE  Positions(l, d, y)' # {} =>
                 Cardinality(Positions(l, d, y)')
                   + Cardinality(Appending(l, d, y)') <= Bound
    <3>1. l \in Kind
      BY DEF Kind
    <3> QED
      BY <2>1, <2>2, <3>1, CountKept
  <2>4. Cardinality(Positions("method", d, y)') <= 1
    BY <2>1 DEF CountInv, Kind
  <2> QED
    BY <2>3, <2>4
<1> QED
  BY <1>9, <1>12, <1>13

-----------------------------------------------------------------------------
(* class_getProperty answers a property of the class or of one above it.   *)
LEMMA GetPropertyAnswer ==
  ASSUME TypeInv, NEW c \in Class, NEW x, Declaring("property", c, x) # {}
  PROVE  /\ GetProperty(c, x)[1] \in Class
         /\ GetProperty(c, x)[2] \in Nat
         /\ GetProperty(c, x)[2] \in Positions("property", GetProperty(c, x)[1], x)
<1> DEFINE l == Min(Declaring("property", c, x))
<1> DEFINE d == Lineage[c][l]
<1>1. Lineage[c] \in Seq(Class) /\ Len(Lineage[c]) \in Nat
  BY ListsAssumption
<1>2. Declaring("property", c, x) \subseteq 1 .. Len(Lineage[c])
  BY <1>1 DEF Declaring
<1>3. l \in Declaring("property", c, x)
  BY <1>1, <1>2, MinMaxInSet
<1>4. d \in Class /\ Positions("property", d, x) # {}
  <2> HIDE DEF l
  <2>1. l \in 1 .. Len(Lineage[c]) /\ Positions("property", Lineage[c][l], x) # {}
    BY <1>2, <1>3 DEF Declaring
  <2> QED
    BY <1>1, <2>1
<1>5. /\ Positions("property", d, x) \subseteq 1 .. Len(lists["property"][d])
      /\ Len(lists["property"][d]) \in Nat
  BY <1>4, PositionsFinite DEF Kind
<1>6. Max(Positions("property", d, x)) \in Positions("property", d, x)
  BY <1>4, <1>5, MinMaxInSet
<1>7. GetProperty(c, x) = <<d, Max(Positions("property", d, x))>>
  BY DEF GetProperty
<1> QED
  BY <1>4, <1>5, <1>6, <1>7

(* The second walk of a copy stops where the first one ended.              *)
Block(n, k) == SubSeq(Walk(n), 1, Min({k, Len(Walk(n))}))

LEMMA CopiedBlock ==
  ASSUME NEW n \in Nat, NEW k \in 1 .. n
  PROVE  /\ Block(n, k) \in Seq(Nat) /\ Len(Block(n, k)) = k
         /\ \A i, j \in DOMAIN Block(n, k) : Block(n, k)[i] = Block(n, k)[j] => i = j
         /\ \A i \in DOMAIN Block(n, k) : Block(n, k)[i] \in 1 .. n
<1> DEFINE w == Walk(n)
<1>1. /\ w \in Seq(Nat) /\ Len(w) = n
      /\ \A i \in 1 .. n : w[i] = n + 1 - i /\ w[i] \in Nat
  <2>1. \A i \in 1 .. n : n + 1 - i \in Nat
    OBVIOUS
  <2> QED
    BY <2>1 DEF Walk
<1>2. Min({k, n}) = k
  <2>1. \A y \in {k, n} : k =< y
    OBVIOUS
  <2> QED
    BY <2>1 DEF Min
<1>3. Block(n, k) = SubSeq(w, 1, k)
  BY <1>1, <1>2 DEF Block
<1> HIDE DEF w
<1>4. /\ SubSeq(w, 1, k) \in Seq(Nat) /\ Len(SubSeq(w, 1, k)) = k
      /\ \A i \in 1 .. k : SubSeq(w, 1, k)[i] = w[i]
  <2>1. k \in Int /\ 1 <= k /\ \A i \in 1 .. k : w[i] \in Nat
    BY <1>1
  <2>2. /\ SubSeq(w, 1, k) \in Seq(Nat)
        /\ Len(SubSeq(w, 1, k)) = IF 1 <= k THEN k - 1 + 1 ELSE 0
        /\ \A i \in 1 .. k - 1 + 1 : SubSeq(w, 1, k)[i] = w[1 + i - 1]
    BY <2>1, SubSeqProperties
  <2> QED
    BY <2>1, <2>2
<1> DEFINE b == Block(n, k)
<1>5. b \in Seq(Nat) /\ Len(b) = k /\ \A i \in 1 .. k : b[i] = n + 1 - i
  BY <1>1, <1>3, <1>4
<1> HIDE DEF b
<1>6. DOMAIN b = 1 .. k
  BY <1>5
<1>7. /\ \A i, j \in DOMAIN b : b[i] = b[j] => i = j
      /\ \A i \in DOMAIN b : b[i] \in 1 .. n
  BY <1>5, <1>6
<1> QED
  BY <1>5, <1>7 DEF b

(* Every step of every call preserves the inductive invariant.             *)
LEMMA NextIInv == IInv /\ [Next]_vars => IInv'
<1> SUFFICES ASSUME IInv, [Next]_vars
             PROVE  IInv'
  OBVIOUS
<1> USE DEF IInv
<1>1. CASE UNCHANGED vars
  <2>1. TypeInv'
    BY <1>1 DEF vars, TypeInv
  <2>2. FrameInv'
    BY <1>1, <2>1, UnchangedGrown, FrameKept DEF vars, FrameInv
  <2>3. \A k, c, x : /\ Positions(k, c, x)' = Positions(k, c, x)
                     /\ Appending(k, c, x)' = Appending(k, c, x)
    BY <1>1 DEF vars, Positions, Appending
  <2>4. CountInv'
    BY <2>3 DEF CountInv, Bound
  <2> QED
    BY <2>1, <2>2, <2>4
<1>2. ASSUME NEW c \in Class, NEW x \in Item, AddMethod(c, x)
      PROVE  IInv'
  BY <1>2, AddMethodStep
<1>3. ASSUME NEW t \in Thread, NEW c \in Class, NEW x \in Item,
             NEW a \in Attributes, BeginAddProperty(t, c, x, a)
      PROVE  IInv'
  <2>1. Positions("property", c, x) = {}
    <3>1. 1 \in DOMAIN Lineage[c] /\ Lineage[c][1] = c
      BY ListsAssumption
    <3>2. Declaring("property", c, x) = {}
      BY <1>3 DEF BeginAddProperty
    <3> QED
      BY <3>1, <3>2 DEF Declaring
  <2> QED
    BY <1>3, <2>1, BeginStep DEF BeginAddProperty
<1>4. ASSUME NEW t \in Thread, NEW c \in Class, NEW x \in Item,
             NEW a \in Attributes, BeginReplaceProperty(t, c, x, a)
      PROVE  IInv'
  <2> DEFINE f == [Adding("property", GetProperty(c, x)[1], x, a)
                     EXCEPT !.at = GetProperty(c, x)[2]]
  <2>1. /\ GetProperty(c, x)[1] \in Class
        /\ GetProperty(c, x)[2] \in Nat
        /\ GetProperty(c, x)[2] \in
             Positions("property", GetProperty(c, x)[1], x)
    BY <1>4, GetPropertyAnswer DEF BeginReplaceProperty
  <2>2. /\ f \in AddFrame /\ f.kind = "property"
        /\ f.at \in Positions(f.kind, f.class, f.entry.item)
    BY <2>1 DEF Adding, AddFrame, Entry, Kind
  <2>3. /\ pc' = [pc EXCEPT ![t] = "rewrite"]
        /\ frame' = [frame EXCEPT ![t] = f]
        /\ lists' = lists /\ t \in Registrar
    BY <1>4 DEF BeginReplaceProperty, Enter, Goto
  <2> HIDE DEF f
  <2>4. pc'[t] = "rewrite" /\ frame'[t] = f
    BY <2>3 DEF TypeInv
  <2>5. FrameAt(t)'
    BY <2>2, <2>3, <2>4 DEF FrameAt, Positions
  <2> QED
    BY <2>3, <2>5, WalkStep
<1>5. ASSUME NEW t \in Thread, NEW c \in Class, NEW x \in Item,
             BeginAddProtocol(t, c, x)
      PROVE  IInv'
  BY <1>5, BeginStep DEF BeginAddProtocol, class_conformsToProtocol
<1>6. ASSUME NEW t \in Thread, NEW k \in Kind, NEW c \in Class,
             CountEntries(t, k, c)
      PROVE  IInv'
  <2> DEFINE f == [kind |-> k, class |-> c,
                   count |-> Len(lists[k][c]), block |-> <<>>]
  <2>1. /\ pc' = [pc EXCEPT ![t] = "copy"]
        /\ frame' = [frame EXCEPT ![t] = f]
        /\ lists' = lists
        /\ Len(lists[k][c]) > 0 /\ Len(lists[k][c]) \in Nat
    BY <1>6 DEF CountEntries, Enter, Goto, TypeInv
  <2>2. f \in CopyFrame /\ f.count \in 1 .. Len(lists[f.kind][f.class])
    BY <2>1 DEF CopyFrame
  <2> HIDE DEF f
  <2>3. pc'[t] = "copy" /\ frame'[t] = f
    BY <2>1 DEF TypeInv
  <2>4. FrameAt(t)'
    BY <2>1, <2>2, <2>3 DEF FrameAt
  <2> QED
    BY <2>1, <2>4, WalkStep
<1>7. ASSUME NEW t \in Thread, AddEntry(t)
      PROVE  IInv'
  BY <1>7, AddEntryStep
<1>8. ASSUME NEW t \in Thread, Rewrite(t)
      PROVE  IInv'
  BY <1>8, RewriteStep
<1>9. ASSUME NEW t \in Thread, CopyEntries(t)
      PROVE  IInv'
  <2> DEFINE n == Len(lists[frame[t].kind][frame[t].class])
  <2> DEFINE b == Block(n, frame[t].count)
  <2> DEFINE f == [frame[t] EXCEPT !.block = b]
  <2>1. /\ pc[t] = "copy"
        /\ pc' = [pc EXCEPT ![t] = "copied"]
        /\ frame' = [frame EXCEPT ![t] = f]
        /\ lists' = lists
    BY <1>9 DEF CopyEntries, Goto, Block
  <2>2. /\ frame[t] \in CopyFrame
        /\ frame[t].count \in 1 .. n /\ n \in Nat
        /\ DOMAIN lists[frame[t].kind][frame[t].class] = 1 .. n
    BY <2>1 DEF FrameInv, FrameAt, CopyFrame, TypeInv
  <2>3. /\ b \in Seq(Nat) /\ Len(b) = frame[t].count
        /\ \A i, j \in DOMAIN b : b[i] = b[j] => i = j
        /\ \A i \in DOMAIN b : b[i] \in 1 .. n
    <3> HIDE DEF n
    <3> QED
      BY <2>2, CopiedBlock
  <2> HIDE DEF b
  <2>4. /\ f \in CopyFrame /\ f.block = b /\ f.count = frame[t].count
        /\ f.kind = frame[t].kind /\ f.class = frame[t].class
    BY <2>2, <2>3 DEF CopyFrame
  <2> HIDE DEF f, n
  <2>5. pc'[t] = "copied" /\ frame'[t] = f
    BY <2>1 DEF TypeInv
  <2>6. /\ Len(f.block) = f.count
        /\ \A i, j \in DOMAIN f.block : f.block[i] = f.block[j] => i = j
        /\ \A i \in DOMAIN f.block : f.block[i] \in DOMAIN lists[f.kind][f.class]
    BY <2>2, <2>3, <2>4
  <2>7. FrameAt(t)'
    BY <2>1, <2>4, <2>5, <2>6 DEF FrameAt
  <2> QED
    BY <2>1, <2>7, WalkStep
<1>10. ASSUME NEW t \in Thread, ReturnBlock(t)
       PROVE  IInv'
  <2>1. /\ pc' = [pc EXCEPT ![t] = "idle"]
        /\ frame' = [frame EXCEPT ![t] = NoFrame]
        /\ lists' = lists
    BY <1>10 DEF ReturnBlock, Return, Goto
  <2>2. pc'[t] = "idle" /\ frame'[t] = NoFrame
    BY <2>1 DEF TypeInv
  <2>3. FrameAt(t)'
    BY <2>2 DEF FrameAt
  <2> QED
    BY <2>1, <2>3, WalkStep
<1> QED
  BY <1>1, <1>2, <1>3, <1>4, <1>5, <1>6, <1>7, <1>8, <1>9, <1>10 DEF Next

LEMMA SpecIInv == Spec => []IInv
  BY InitIInv, NextIInv, PTL DEF Spec

-----------------------------------------------------------------------------
(* The lists hold entries, and every thread's frame has the shape its      *)
(* label calls for.                                                        *)
THEOREM TypeCorrect == Spec => []TypeOK
<1>1. IInv => TypeOK
  <2> SUFFICES ASSUME TypeInv, FrameInv, NEW t \in Thread
               PROVE  CASE pc[t] = "idle" -> frame[t] = NoFrame
                        [] pc[t] \in {"append", "rewrite"} -> frame[t] \in AddFrame
                        [] OTHER -> frame[t] \in CopyFrame
    BY DEF IInv, TypeInv, TypeOK
  <2>1. FrameAt(t) /\ pc[t] \in {"idle", "append", "rewrite", "copy", "copied"}
    BY DEF TypeInv, FrameInv
  <2> QED
    BY <2>1 DEF FrameAt
<1> QED
  BY <1>1, SpecIInv, PTL

(* class_replaceProperty rewrites the property it looked up, whatever was  *)
(* added to the lists between its search and its write.                    *)
THEOREM RewriteFindsIt == Spec => []RewritesItsProperty
<1>1. IInv => RewritesItsProperty
  BY DEF IInv, FrameInv, FrameAt, RewritesItsProperty
<1> QED
  BY <1>1, SpecIInv, PTL

(* class_copyMethodList, class_copyPropertyList and class_copyProtocolList *)
(* fill exactly the slots they counted, with entries the class declares,   *)
(* however the list grows between the two walks.                           *)
THEOREM CopyIsExact == Spec => []BlockExact
<1>1. IInv => BlockExact
  BY DEF IInv, FrameInv, FrameAt, BlockExact
<1> QED
  BY <1>1, SpecIInv, PTL

(* A property or protocol is declared at most once for each thread that    *)
(* adds, and a method once, although the search and the addition of a      *)
(* property are two steps.                                                 *)
THEOREM AtMostOncePerRegistrar == Spec => []OncePerRegistrar
<1>1. IInv => OncePerRegistrar
  <2> SUFFICES ASSUME IInv, NEW c \in Class, NEW x \in Item,
                      NEW k \in {"property", "protocol"}
               PROVE  /\ Cardinality(Positions(k, c, x)) <= Bound
                      /\ Cardinality(Positions("method", c, x)) <= 1
    BY DEF OncePerRegistrar, Bound
  <2>1. /\ Cardinality(Positions(k, c, x)) \in Nat
        /\ Cardinality(Appending(k, c, x)) \in Nat
    BY PositionsFinite, AppendingFinite DEF IInv, Kind
  <2>2. CASE Positions(k, c, x) = {}
    <3>1. Cardinality(Positions(k, c, x)) = 0
      BY <2>2, FS_EmptySet
    <3> QED
      BY <3>1, BoundValue DEF IInv, CountInv
  <2>3. CASE Positions(k, c, x) # {}
    BY <2>1, <2>3, BoundValue DEF IInv, CountInv
  <2> QED
    BY <2>2, <2>3
<1> QED
  BY <1>1, SpecIInv, PTL

(* Where one thread does all the registration, a class declares each       *)
(* property and each protocol once.                                        *)
THEOREM OnceWhenSynchronized ==
  ASSUME NEW r, Registrar = {r}
  PROVE  Spec => [](\A c \in Class, x \in Item, k \in Kind :
                      Cardinality(Positions(k, c, x)) <= 1)
<1>1. Bound = 1
  <2>1. Cardinality(Registrar) = 1
    BY FS_Singleton
  <2>2. Max({1, 1}) = 1
    BY DEF Max
  <2> QED
    BY <2>1, <2>2 DEF Bound
<1>2. OncePerRegistrar =>
        \A c \in Class, x \in Item, k \in Kind :
          Cardinality(Positions(k, c, x)) <= 1
  BY <1>1 DEF OncePerRegistrar, Bound, Kind
<1> QED
  BY <1>2, AtMostOncePerRegistrar, PTL

=============================================================================
