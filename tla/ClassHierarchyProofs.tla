------------------------ MODULE ClassHierarchyProofs ------------------------
(***************************************************************************)
(* Theorems about the links of classes, their forward methods and their    *)
(* caches, for any number of threads, classes and handlers.  What a search *)
(* finds is defined by recursion along the superclasses; that it is defined *)
(* at all is proved from the rank of the classes, which every link lowers. *)
(***************************************************************************)
EXTENDS ClassHierarchy, WellFoundedInduction, TLAPS

(* The labels at which a thread has the universe lock.                     *)
CriticalLabel == {"setSuperclass", "setSuperclassid", "setMeta", "setMetaid",
                  "invalidate", "unlock", "setDefault", "walk"}

TypesInv ==
  /\ super \in [Node -> Node \cup {NoNode}]
  /\ superid \in [Node -> Class \cup {NoNode}]
  /\ registered \subseteq allocated /\ allocated \subseteq Class
  /\ forward \in [Node -> Forward \cup {"lazy"}]
  /\ default \in Forward
  /\ handler \in Handler \cup {NoHandler}
  /\ lock \in Thread \cup {NoThread}
  /\ pc \in [Thread -> Label]
  /\ frame \in [Thread -> [cls : Class, sup : Class]]
  /\ unreached \subseteq allocated
  /\ outdated \subseteq Node \X Sel

LockInv == \A t \in Thread : pc[t] \in CriticalLabel <=> lock = t

(* A class is between its two superclass links.                            *)
Moving(c) ==
  \E t \in Thread : pc[t] \in {"setSuperclassid", "setMeta"} /\ frame[t].cls = c

(* A class has a new superclass and the id of the old one.                 *)
Renaming(c) ==
  \E t \in Thread : pc[t] = "setSuperclassid" /\ frame[t].cls = c

Parallel(c) ==
  super[Meta(c)] = IF super[Infra(c)] = NoNode THEN Infra(c)
                                               ELSE Meta(super[Infra(c)][1])

(* The links are in order but for the class that is being moved, and of    *)
(* that it is known how far the move has come.                             *)
LinkInv ==
  /\ \A c \in allocated : Parallel(c) \/ Moving(c)
  /\ \A c \in allocated \ {Root} :
       superid[Infra(c)] = super[Infra(c)][1] \/ Renaming(c)
  /\ \A t \in Thread :
       /\ pc[t] \in {"setSuperclassid", "setMeta", "setMetaid"} =>
            super[Infra(frame[t].cls)] = Infra(frame[t].sup)
       /\ pc[t] = "setMetaid" => super[Meta(frame[t].cls)] = Meta(frame[t].sup)

(* The classes that have the compiled forward method when the static one   *)
(* is the default are those the walk has still to reach, or did not.       *)
ForwardInv ==
  /\ default = "compiled" => \A n \in Node : forward[n] # "static"
  /\ default = "static" =>
       \/ \E t \in Thread : pc[t] = "walk"
       \/ \A n \in Node : n[1] \in allocated \ unreached => forward[n] # "compiled"
  /\ \A t \in Thread : pc[t] = "walk" => default = "static"
  /\ \A n \in Node : n[1] \notin allocated => forward[n] = "lazy"

(* The labels of class_setSuperclass before the invalidation.              *)
MoveLabel == {"lock", "setSuperclass", "setSuperclassid", "setMeta", "setMetaid"}

(* A class that is being moved is a class there is, and so is the one it   *)
(* comes below.                                                            *)
FrameInv ==
  \A t \in Thread : pc[t] \in MoveLabel =>
    /\ {frame[t].cls, frame[t].sup} \subseteq allocated
    /\ Rank[frame[t].sup] < Rank[frame[t].cls]

IInv == TypesInv /\ LockInv /\ FrameInv /\ LinkInv /\ ForwardInv

(* A node's class and side.                                                *)
LEMMA Nodes ==
  /\ \A c \in Class : /\ Infra(c) \in Node /\ Meta(c) \in Node
                      /\ Infra(c)[1] = c /\ Meta(c)[1] = c
                      /\ Infra(c) # NoNode /\ Meta(c) # NoNode
                      /\ Infra(c) # Meta(c)
  /\ \A c, d \in Class : /\ Infra(c) # Meta(d)
                         /\ Infra(c) = Infra(d) => c = d
                         /\ Meta(c) = Meta(d) => c = d
  /\ \A n \in Node : n = Infra(n[1]) \/ n = Meta(n[1])
  BY SentinelAssumption DEF Infra, Meta, Node

LEMMA InitIInv == Init => IInv
<1> SUFFICES ASSUME Init PROVE IInv
  OBVIOUS
<1>1. TypesInv
  <2>1. \A n \in Node : CompiledParent(n) \in Node \cup {NoNode}
    BY HierarchyAssumption DEF CompiledParent, Node, Infra, Meta
  <2>2. \A n \in Node : n[1] \in Class
    BY DEF Node
  <2> QED
    BY <2>1, <2>2, HierarchyAssumption
    DEF Init, TypesInv, NoFrame, Label, Forward
<1>2. LockInv
  BY SentinelAssumption DEF Init, LockInv, CriticalLabel
<1>3. LinkInv
  <2>1. ASSUME NEW c \in Compiled \ {Root}
        PROVE  /\ CompiledParent(Infra(c)) = Infra(Parent[c])
               /\ CompiledParent(Meta(c)) = Meta(Parent[c])
               /\ Parent[c] \in Class /\ c \in Class
    BY HierarchyAssumption DEF CompiledParent, Infra, Meta
  <2>2. /\ CompiledParent(Infra(Root)) = NoNode
        /\ CompiledParent(Meta(Root)) = Infra(Root)
        /\ Root \in Class
    BY HierarchyAssumption DEF CompiledParent, Infra, Meta
  <2>3. \A c \in allocated : Parallel(c)
    BY <2>1, <2>2, Nodes, HierarchyAssumption DEF Init, Parallel
  <2>4. \A c \in allocated \ {Root} : superid[Infra(c)] = super[Infra(c)][1]
    BY <2>1, Nodes, HierarchyAssumption DEF Init
  <2> QED
    BY <2>3, <2>4 DEF Init, LinkInv
<1>4. ForwardInv
  BY DEF Init, ForwardInv
<1>5. FrameInv
  BY DEF Init, FrameInv, MoveLabel
<1> QED
  BY <1>1, <1>2, <1>3, <1>4, <1>5 DEF IInv

-----------------------------------------------------------------------------
(* The typing of the state, and who has the lock.                          *)

LEMMA TypesStep ==
  ASSUME IInv, [Next]_vars
  PROVE  TypesInv'
<1> USE DEF IInv, TypesInv
<1>1. CASE UNCHANGED vars
  BY <1>1 DEF vars, links
<1>2. ASSUME NEW c \in Class, NEW d \in Class, AllocateClassPair(c, d)
      PROVE  TypesInv'
  <2>1. Infra(c) \in Node /\ Meta(c) \in Node /\ Infra(d) \in Node /\ Meta(d) \in Node
    BY Nodes
  <2>2. /\ super' \in [Node -> Node \cup {NoNode}]
        /\ superid' \in [Node -> Class \cup {NoNode}]
    BY <1>2, <2>1 DEF AllocateClassPair
  <2>3. forward' \in [Node -> Forward \cup {"lazy"}]
    BY <1>2, <2>1 DEF AllocateClassPair
  <2> QED
    BY <1>2, <2>2, <2>3 DEF AllocateClassPair
<1>3. ASSUME NEW c \in Class, RegisterClassPair(c)
      PROVE  TypesInv'
  BY <1>3 DEF RegisterClassPair
<1>4. ASSUME NEW n \in Node, NEW s \in Sel, Lookup(n, s)
      PROVE  TypesInv'
  BY <1>4 DEF Lookup, links
<1>5. ASSUME NEW t \in Thread, NEW c \in Class, NEW d \in Class,
             BeginSetSuperclass(t, c, d)
      PROVE  TypesInv'
  BY <1>5 DEF BeginSetSuperclass, links, Goto, Label
<1>6. ASSUME NEW t \in Thread, NEW fwd \in Handler, SetForwardHandler(t, fwd)
      PROVE  TypesInv'
  BY <1>6 DEF SetForwardHandler, links, Goto, Label, Forwarding
<1>7. ASSUME NEW t \in Thread, AcquireLock(t)
      PROVE  TypesInv'
  BY <1>7 DEF AcquireLock, links, Goto, Label
<1>8. ASSUME NEW t \in Thread, SetSuperclass(t) \/ SetMetaSuperclass(t)
      PROVE  TypesInv'
  <2>1. /\ Infra(frame[t].sup) \in Node /\ Meta(frame[t].sup) \in Node
        /\ Infra(frame[t].cls) \in Node /\ Meta(frame[t].cls) \in Node
    BY Nodes
  <2>2. CASE SetSuperclass(t)
    BY <2>1, <2>2 DEF SetSuperclass, Goto, Label
  <2>3. CASE SetMetaSuperclass(t)
    BY <2>1, <2>3 DEF SetMetaSuperclass, Goto, Label
  <2> QED
    BY <1>8, <2>2, <2>3
<1>9. ASSUME NEW t \in Thread, SetSuperclassid(t)
      PROVE  TypesInv'
  BY <1>9, Nodes DEF SetSuperclassid, Goto, Label
<1>10. ASSUME NEW t \in Thread, SetMetaSuperclassid(t)
       PROVE  TypesInv'
  <2>1. super[Meta(frame[t].cls)][1] = frame[t].sup
    BY <1>10, Nodes DEF SetMetaSuperclassid, LinkInv
  <2> QED
    BY <1>10, <2>1, Nodes DEF SetMetaSuperclassid, Goto, Label
<1>11. ASSUME NEW t \in Thread,
              \/ InvalidateCaches(t) \/ Unlock(t) \/ SetDefault(t) \/ WalkClasses(t)
       PROVE  TypesInv'
  <2>1. NoFrame \in [cls : Class, sup : Class]
    BY HierarchyAssumption DEF NoFrame
  <2>2. CASE InvalidateCaches(t)
    BY <2>2 DEF InvalidateCaches, links, Goto, Label, Pass
  <2>3. CASE Unlock(t)
    BY <2>1, <2>3 DEF Unlock, links, Goto, Label
  <2>4. CASE SetDefault(t)
    BY <2>4 DEF SetDefault, links, Goto, Label, Forward
  <2>5. CASE WalkClasses(t)
    BY <2>5 DEF WalkClasses, links, Goto, Label, Forward, Pass, Forwarding
  <2> QED
    BY <1>11, <2>2, <2>3, <2>4, <2>5
<1> HIDE DEF IInv, TypesInv
<1> QED
  BY <1>1, <1>2, <1>3, <1>4, <1>5, <1>6, <1>7, <1>8, <1>9, <1>10, <1>11
  DEF Next, Critical

(* How a step can move the threads and the lock.                           *)
LEMMA LockStep ==
  ASSUME IInv, [Next]_vars
  PROVE  LockInv'
<1> USE SentinelAssumption DEF IInv, TypesInv, LockInv, CriticalLabel
<1>1. CASE UNCHANGED <<pc, lock>>
  BY <1>1
<1>2. ASSUME NEW t \in Thread, NEW label \in Label,
             pc[t] \in CriticalLabel <=> label \in CriticalLabel,
             Goto(t, label), lock' = lock
      PROVE  LockInv'
  BY <1>2 DEF Goto
<1>3. ASSUME NEW t \in Thread, AcquireLock(t)
      PROVE  LockInv'
  BY <1>3 DEF AcquireLock, Goto
<1>4. ASSUME NEW t \in Thread, Unlock(t)
      PROVE  LockInv'
  BY <1>4 DEF Unlock, Goto
<1>5. ASSUME NEW t \in Thread,
             \/ \E c, d \in Class : BeginSetSuperclass(t, c, d)
             \/ \E fwd \in Handler : SetForwardHandler(t, fwd)
             \/ SetSuperclass(t) \/ SetSuperclassid(t) \/ SetMetaSuperclass(t)
             \/ SetMetaSuperclassid(t) \/ InvalidateCaches(t)
             \/ SetDefault(t) \/ WalkClasses(t)
      PROVE  LockInv'
  BY <1>2, <1>5
  DEF BeginSetSuperclass, SetForwardHandler, SetSuperclass, SetSuperclassid,
      SetMetaSuperclass, SetMetaSuperclassid, InvalidateCaches, SetDefault,
      WalkClasses, Label
<1>6. ASSUME \/ \E c, d \in Class : AllocateClassPair(c, d)
             \/ \E c \in Class : RegisterClassPair(c)
             \/ \E n \in Node, s \in Sel : Lookup(n, s)
             \/ UNCHANGED vars
      PROVE  UNCHANGED <<pc, lock>>
  BY <1>6 DEF AllocateClassPair, RegisterClassPair, Lookup, vars
<1> HIDE DEF IInv, TypesInv, LockInv, CriticalLabel
<1> QED
  BY <1>1, <1>3, <1>4, <1>5, <1>6 DEF Next, Critical

-----------------------------------------------------------------------------
(* The forward methods.                                                    *)
LEMMA ForwardStep ==
  ASSUME IInv, [Next]_vars
  PROVE  ForwardInv'
<1> USE DEF IInv, TypesInv, ForwardInv, Forward
<1>1. ASSUME NEW c \in Class, NEW d \in Class, AllocateClassPair(c, d)
      PROVE  ForwardInv'
  BY <1>1, Nodes DEF AllocateClassPair
<1>2. ASSUME NEW c \in Class, RegisterClassPair(c)
      PROVE  ForwardInv'
  BY <1>2 DEF RegisterClassPair
<1>3. ASSUME NEW n \in Node, NEW s \in Sel, Lookup(n, s)
      PROVE  ForwardInv'
  <2>1. \/ UNCHANGED forward
        \/ forward' = [forward EXCEPT ![n] =
                         IF forward[n] = "lazy" THEN default ELSE forward[n]]
    BY <1>3 DEF Lookup
  <2>2. n[1] \in allocated /\ UNCHANGED <<allocated, default, pc, unreached>>
    BY <1>3 DEF Lookup, links
  <2> QED
    BY <2>1, <2>2
<1>4. ASSUME NEW t \in Thread, SetDefault(t)
      PROVE  ForwardInv'
  <2>1. pc'[t] = "walk" /\ default' = "static"
    BY <1>4 DEF SetDefault, Goto
  <2>2. UNCHANGED <<allocated, forward>>
    BY <1>4 DEF SetDefault, links
  <2> QED
    BY <2>1, <2>2
<1>5. ASSUME NEW t \in Thread, WalkClasses(t)
      PROVE  ForwardInv'
  <2>1. /\ forward' = [n \in Node |-> IF n[1] \in registered THEN "static"
                                                            ELSE forward[n]]
        /\ unreached' = unreached \cup (allocated \ registered)
        /\ UNCHANGED <<allocated, default>>
    BY <1>5 DEF WalkClasses, Pass, links
  <2>2. default = "static"
    BY <1>5 DEF WalkClasses, ForwardInv
  <2> QED
    BY <2>1, <2>2
<1>6. ASSUME NEW t \in Thread, pc[t] # "walk",
             UNCHANGED <<allocated, forward, default>>,
             unreached \subseteq unreached',
             NEW label \in Label \ {"walk"}, pc' = [pc EXCEPT ![t] = label]
      PROVE  ForwardInv'
  BY <1>6
<1>7. ASSUME NEW t \in Thread,
             \/ \E c, d \in Class : BeginSetSuperclass(t, c, d)
             \/ \E fwd \in Handler : SetForwardHandler(t, fwd)
             \/ SetSuperclass(t) \/ SetSuperclassid(t) \/ SetMetaSuperclass(t)
             \/ SetMetaSuperclassid(t) \/ InvalidateCaches(t)
             \/ AcquireLock(t) \/ Unlock(t)
      PROVE  ForwardInv'
  <2> HIDE DEF IInv, TypesInv, ForwardInv, Forward
  <2> QED
    BY <1>6, <1>7
    DEF BeginSetSuperclass, SetForwardHandler, SetSuperclass, SetSuperclassid,
        SetMetaSuperclass, SetMetaSuperclassid, InvalidateCaches, AcquireLock,
        Unlock, Goto, Label, Pass, links
<1>8. CASE UNCHANGED vars
  BY <1>8 DEF vars, links
<1> HIDE DEF IInv, TypesInv, ForwardInv, Forward
<1> QED
  BY <1>1, <1>2, <1>3, <1>4, <1>5, <1>7, <1>8 DEF Next, Critical

-----------------------------------------------------------------------------
(* The links.                                                              *)

(* A thread moves on, and the links stay.                                  *)
LEMMA LinksKept ==
  ASSUME IInv, NEW t \in Thread, UNCHANGED <<super, superid, allocated>>,
         NEW label \in Label, pc' = [pc EXCEPT ![t] = label],
         pc[t] \notin {"setSuperclassid", "setMeta"},
         label \notin {"setSuperclassid", "setMeta", "setMetaid"},
         \A u \in Thread \ {t} : frame'[u] = frame[u]
  PROVE  LinkInv'
<1>1. \A c : Moving(c) => Moving(c)'
  BY DEF Moving, IInv, TypesInv
<1>2. \A c : Renaming(c) => Renaming(c)'
  BY DEF Renaming, IInv, TypesInv
<1>3. \A c : Parallel(c)' = Parallel(c)
  BY DEF Parallel
<1>4. \A u \in Thread :
        pc'[u] \in {"setSuperclassid", "setMeta", "setMetaid"} =>
          u # t /\ pc'[u] = pc[u] /\ frame'[u] = frame[u]
  BY DEF IInv, TypesInv
<1> QED
  BY <1>1, <1>2, <1>3, <1>4 DEF IInv, LinkInv

(* Nothing the links depend on changes.                                    *)
LEMMA LinksUntouched ==
  ASSUME IInv, UNCHANGED <<super, superid, allocated, pc, frame>>
  PROVE  LinkInv'
  BY DEF IInv, LinkInv, Moving, Renaming, Parallel

LEMMA AllocateLinks ==
  ASSUME IInv, NEW c \in Class, NEW d \in Class, AllocateClassPair(c, d)
  PROVE  LinkInv'
<1>1. /\ super' = [super EXCEPT ![Infra(c)] = Infra(d), ![Meta(c)] = Meta(d)]
      /\ superid' = [superid EXCEPT ![Infra(c)] = d, ![Meta(c)] = d]
      /\ allocated' = allocated \cup {c} /\ c \notin allocated
      /\ UNCHANGED <<pc, frame>>
      /\ allocated \subseteq Class
  BY DEF AllocateClassPair, IInv, TypesInv
<1>2. /\ super'[Infra(c)] = Infra(d) /\ super'[Meta(c)] = Meta(d)
      /\ superid'[Infra(c)] = d
  BY <1>1, Nodes DEF IInv, TypesInv
<1>3. ASSUME NEW e \in Class, e # c
      PROVE  /\ super'[Infra(e)] = super[Infra(e)]
             /\ super'[Meta(e)] = super[Meta(e)]
             /\ superid'[Infra(e)] = superid[Infra(e)]
  BY <1>1, <1>3, Nodes DEF IInv, TypesInv
<1>4. \A e \in allocated' : Parallel(e)' \/ Moving(e)'
  <2>1. Parallel(c)'
    BY <1>2, Nodes DEF Parallel
  <2>2. ASSUME NEW e \in allocated
        PROVE  Parallel(e)' \/ Moving(e)'
    BY <1>1, <1>3 DEF IInv, LinkInv, Parallel, Moving
  <2> QED
    BY <1>1, <2>1, <2>2
<1>5. \A e \in allocated' \ {Root} :
        superid'[Infra(e)] = super'[Infra(e)][1] \/ Renaming(e)'
  <2>1. superid'[Infra(c)] = super'[Infra(c)][1]
    BY <1>2, Nodes
  <2>2. ASSUME NEW e \in allocated \ {Root}
        PROVE  superid'[Infra(e)] = super'[Infra(e)][1] \/ Renaming(e)'
    BY <1>1, <1>3 DEF IInv, LinkInv, Renaming
  <2> QED
    BY <1>1, <2>1, <2>2
<1>6. \A t \in Thread :
        /\ pc[t] \in {"setSuperclassid", "setMeta", "setMetaid"} =>
             super'[Infra(frame[t].cls)] = Infra(frame[t].sup)
        /\ pc[t] = "setMetaid" => super'[Meta(frame[t].cls)] = Meta(frame[t].sup)
  <2> SUFFICES ASSUME NEW t \in Thread,
                      pc[t] \in {"setSuperclassid", "setMeta", "setMetaid"}
               PROVE  /\ super'[Infra(frame[t].cls)] = Infra(frame[t].sup)
                      /\ pc[t] = "setMetaid" =>
                           super'[Meta(frame[t].cls)] = Meta(frame[t].sup)
    OBVIOUS
  <2>1. frame[t].cls \in Class /\ frame[t].cls # c
    BY <1>1 DEF IInv, FrameInv, MoveLabel
  <2> QED
    BY <1>3, <2>1 DEF IInv, LinkInv
<1> QED
  BY <1>1, <1>4, <1>5, <1>6 DEF LinkInv

(* One thread moves a class: what it writes concerns no other class.       *)
LEMMA MoveLinks ==
  ASSUME IInv, NEW t \in Thread,
         \/ SetSuperclass(t) \/ SetSuperclassid(t)
         \/ SetMetaSuperclass(t) \/ SetMetaSuperclassid(t)
  PROVE  LinkInv'
<1> DEFINE c == frame[t].cls
           d == frame[t].sup
<1>1. /\ c \in Class /\ d \in Class
      /\ \A u \in Thread \ {t} :
           pc[u] \notin {"setSuperclassid", "setMeta", "setMetaid"}
      /\ UNCHANGED <<allocated, frame>> /\ allocated \subseteq Class
  BY DEF IInv, TypesInv, LockInv, CriticalLabel, SetSuperclass,
         SetSuperclassid, SetMetaSuperclass, SetMetaSuperclassid
<1>2. \A u \in Thread \ {t} : pc'[u] = pc[u]
  BY DEF IInv, TypesInv, SetSuperclass, SetSuperclassid, SetMetaSuperclass,
         SetMetaSuperclassid, Goto
<1>3. ASSUME NEW e \in Class, e # c
      PROVE  /\ super'[Infra(e)] = super[Infra(e)]
             /\ super'[Meta(e)] = super[Meta(e)]
             /\ superid'[Infra(e)] = superid[Infra(e)]
  BY <1>1, <1>3, Nodes
  DEF IInv, TypesInv, SetSuperclass, SetSuperclassid, SetMetaSuperclass,
      SetMetaSuperclassid
<1>4. ASSUME NEW e \in allocated, e # c
      PROVE  /\ Parallel(e)'
             /\ e # Root => superid'[Infra(e)] = super'[Infra(e)][1]
  <2>1. ~Moving(e) /\ ~Renaming(e)
    BY <1>1, <1>4 DEF Moving, Renaming
  <2> QED
    BY <1>1, <1>3, <1>4, <2>1 DEF IInv, LinkInv, Parallel
<1>5. /\ Parallel(c)' \/ Moving(c)'
      /\ c # Root => superid'[Infra(c)] = super'[Infra(c)][1] \/ Renaming(c)'
      /\ pc'[t] \in {"setSuperclassid", "setMeta", "setMetaid"} =>
           super'[Infra(c)] = Infra(d)
      /\ pc'[t] = "setMetaid" => super'[Meta(c)] = Meta(d)
  <2>1. CASE SetSuperclass(t)
    <3>1. pc'[t] = "setSuperclassid" /\ super'[Infra(c)] = Infra(d)
      BY <1>1, <2>1, Nodes DEF IInv, TypesInv, SetSuperclass, Goto
    <3> QED
      BY <1>1, <3>1 DEF Moving, Renaming
  <2>2. CASE SetSuperclassid(t)
    <3>1. /\ pc'[t] = "setMeta" /\ super'[Infra(c)] = Infra(d)
          /\ superid'[Infra(c)] = d
      BY <1>1, <2>2, Nodes DEF IInv, TypesInv, LinkInv, SetSuperclassid, Goto
    <3> QED
      BY <1>1, <3>1, Nodes DEF Moving
  <2>3. CASE SetMetaSuperclass(t)
    <3>1. /\ pc'[t] = "setMetaid" /\ super'[Infra(c)] = Infra(d)
          /\ super'[Meta(c)] = Meta(d)
          /\ super[Infra(c)] = Infra(d) /\ superid'[Infra(c)] = superid[Infra(c)]
      BY <1>1, <2>3, Nodes DEF IInv, TypesInv, LinkInv, SetMetaSuperclass, Goto
    <3>2. Parallel(c)'
      BY <1>1, <3>1, Nodes DEF Parallel
    <3>3. c # Root => superid[Infra(c)] = super[Infra(c)][1]
      <4>1. pc[t] = "setMeta" /\ ~Renaming(c) /\ c \in allocated
        BY <1>1, <2>3
        DEF IInv, FrameInv, MoveLabel, SetMetaSuperclass, Renaming
      <4> QED
        BY <4>1 DEF IInv, LinkInv
    <3> QED
      BY <3>1, <3>2, <3>3
  <2>4. CASE SetMetaSuperclassid(t)
    <3>1. /\ pc'[t] = "invalidate" /\ super' = super
          /\ super[Infra(c)] = Infra(d) /\ super[Meta(c)] = Meta(d)
          /\ superid'[Infra(c)] = super[Meta(c)][1]
      BY <1>1, <2>4, Nodes
      DEF IInv, TypesInv, LinkInv, SetMetaSuperclassid, Goto
    <3> QED
      BY <1>1, <3>1, Nodes DEF Parallel
  <2> QED
    BY <2>1, <2>2, <2>3, <2>4
<1>6. \A e \in allocated' : Parallel(e)' \/ Moving(e)'
  BY <1>1, <1>4, <1>5
<1>7. \A e \in allocated' \ {Root} :
        superid'[Infra(e)] = super'[Infra(e)][1] \/ Renaming(e)'
  BY <1>1, <1>4, <1>5
<1>8. \A u \in Thread :
        /\ pc'[u] \in {"setSuperclassid", "setMeta", "setMetaid"} =>
             super'[Infra(frame'[u].cls)] = Infra(frame'[u].sup)
        /\ pc'[u] = "setMetaid" => super'[Meta(frame'[u].cls)] = Meta(frame'[u].sup)
  BY <1>1, <1>2, <1>5
<1> QED
  BY <1>6, <1>7, <1>8 DEF LinkInv

LEMMA LinkStep ==
  ASSUME IInv, [Next]_vars
  PROVE  LinkInv'
<1>1. ASSUME NEW t \in Thread,
             \/ \E c, d \in Class : BeginSetSuperclass(t, c, d)
             \/ \E fwd \in Handler : SetForwardHandler(t, fwd)
             \/ AcquireLock(t) \/ InvalidateCaches(t) \/ Unlock(t)
             \/ SetDefault(t) \/ WalkClasses(t)
      PROVE  LinkInv'
  BY <1>1, LinksKept
  DEF IInv, TypesInv, BeginSetSuperclass, SetForwardHandler, AcquireLock,
      InvalidateCaches, Unlock, SetDefault, WalkClasses, Goto, Label, links
<1>2. ASSUME \/ \E c \in Class : RegisterClassPair(c)
             \/ \E n \in Node, s \in Sel : Lookup(n, s)
             \/ UNCHANGED vars
      PROVE  LinkInv'
  BY <1>2, LinksUntouched DEF RegisterClassPair, Lookup, vars, links
<1> QED
  BY <1>1, <1>2, AllocateLinks, MoveLinks DEF Next, Critical

LEMMA FrameStep ==
  ASSUME IInv, [Next]_vars
  PROVE  FrameInv'
<1> USE DEF IInv, TypesInv, FrameInv, MoveLabel
<1>1. ASSUME NEW t \in Thread, NEW c \in Class, NEW d \in Class,
             BeginSetSuperclass(t, c, d)
      PROVE  FrameInv'
  BY <1>1 DEF BeginSetSuperclass, Goto, links
<1>2. ASSUME NEW t \in Thread, NEW label \in Label, allocated' = allocated,
             pc' = [pc EXCEPT ![t] = label],
             label \in MoveLabel => pc[t] \in MoveLabel /\ frame' = frame,
             \A u \in Thread \ {t} : frame'[u] = frame[u]
      PROVE  FrameInv'
  BY <1>2
<1>3. ASSUME NEW t \in Thread,
             \/ \E fwd \in Handler : SetForwardHandler(t, fwd)
             \/ AcquireLock(t) \/ InvalidateCaches(t) \/ Unlock(t)
             \/ SetDefault(t) \/ WalkClasses(t)
             \/ SetSuperclass(t) \/ SetSuperclassid(t) \/ SetMetaSuperclass(t)
             \/ SetMetaSuperclassid(t)
      PROVE  FrameInv'
  <2> HIDE DEF IInv, FrameInv
  <2>1. frame \in [Thread -> [cls : Class, sup : Class]]
    BY DEF IInv
  <2> HIDE DEF TypesInv
  <2> QED
    BY <1>2, <1>3, <2>1
    DEF SetForwardHandler, AcquireLock, InvalidateCaches, Unlock, SetDefault,
        WalkClasses, SetSuperclass, SetSuperclassid, SetMetaSuperclass,
        SetMetaSuperclassid, Goto, Label, links
<1>4. ASSUME \/ \E c, d \in Class : AllocateClassPair(c, d)
             \/ \E c \in Class : RegisterClassPair(c)
             \/ \E n \in Node, s \in Sel : Lookup(n, s)
             \/ UNCHANGED vars
      PROVE  FrameInv'
  <2>1. UNCHANGED <<pc, frame>> /\ allocated \subseteq allocated'
    BY <1>4 DEF AllocateClassPair, RegisterClassPair, Lookup, vars, links
  <2> QED
    BY <2>1
<1> HIDE DEF IInv, TypesInv, FrameInv, MoveLabel
<1> QED
  BY <1>1, <1>3, <1>4 DEF Next, Critical

-----------------------------------------------------------------------------
(* What holds of the links.                                                *)

(* The invariant is inductive.                                             *)
LEMMA Invariance == Spec => []IInv
<1>1. IInv /\ [Next]_vars => IInv'
  BY TypesStep, LockStep, FrameStep, LinkStep, ForwardStep DEF IInv
<1> QED
  BY InitIInv, <1>1, PTL DEF Spec

(* When nobody has the lock nobody is within one of the two functions.     *)
LEMMA NobodyCritical ==
  ASSUME IInv, Quiet
  PROVE  \A t \in Thread : pc[t] \notin CriticalLabel
  BY SentinelAssumption DEF IInv, LockInv, Quiet

(* Whatever classes class_setSuperclass has moved, and however many threads *)
(* do it: whenever none is at it, the metaclasses form the tree of the     *)
(* infraclasses.                                                           *)
THEOREM MetaParallelTheorem == Spec => []MetaParallel
<1>1. IInv => MetaParallel
  BY NobodyCritical
  DEF IInv, LinkInv, Moving, Parallel, MetaParallel, CriticalLabel,
      class_getSuperclass
<1> QED
  BY Invariance, <1>1, PTL

(* The id that class_setSuperclass stores for the metaclass over that of   *)
(* the infraclass is the same id.                                          *)
THEOREM SuperidTheorem == Spec => []SuperidFollows
<1>1. IInv => SuperidFollows
  BY NobodyCritical
  DEF IInv, LinkInv, Renaming, SuperidFollows, CriticalLabel,
      class_getSuperclass
<1> QED
  BY Invariance, <1>1, PTL

-----------------------------------------------------------------------------
(* What a search finds.                                                    *)

(* Where a search comes from n with the superclasses in up: on to the      *)
(* answer for the superclass, unless it ends here.                         *)
Onward(up, s, f, n) ==
  CASE <<n, s>> \in Defines -> n
    [] <<n, s>> \notin Defines /\ up[n] = NoNode -> NoNode
    [] OTHER -> f[up[n]]

Search(up, s) == CHOOSE f : f = [n \in Node |-> Onward(up, s, f, n)]

(* Every superclass is of a lower rank, the root's metaclass excepted: its *)
(* superclass is the root.                                                 *)
Depth(n) == 2 * Rank[n[1]] + (IF class_isMetaClass(n) THEN 1 ELSE 0)

Descends(up) == \A n \in Node : up[n] # NoNode => Depth(up[n]) < Depth(n)

(* A set of nodes with no node of its own above it.                        *)
LEMMA Shallowest ==
  ASSUME NEW A, A \subseteq Node, A # {}
  PROVE  \E m \in A : \A n \in A : ~(Depth(n) < Depth(m))
<1>0. \A n \in Node : Depth(n) \in Nat
  BY HierarchyAssumption DEF Node, Depth
<1> DEFINE S == {Depth(n) : n \in A}
<1>1. S \subseteq Nat /\ S # {}
  BY <1>0
<1>2. PICK x \in S : \A y \in S : <<y, x>> \notin OpToRel(<, Nat)
  <2> HIDE DEF S
  <2> QED
    BY <1>1, NatLessThanWellFounded, WFMin
<1>3. \A y \in S : ~(y < x)
  BY <1>1, <1>2, Zenon DEF OpToRel
<1>4. PICK m \in A : x = Depth(m)
  OBVIOUS
<1> QED
  BY <1>3, <1>4

(* f answers as a search does for the nodes of A.                          *)
Answers(up, s, A, f) == \A m \in A : f[m] = Onward(up, s, f, m)

(* From the nodes of A a search goes the same way along up and vp.         *)
SameWay(up, vp, A) ==
  A \subseteq Node /\
  \A m \in A : vp[m] = up[m] /\ (up[m] # NoNode => up[m] \in A)

(* Two searches along the same superclasses have the same answers.         *)
LEMMA SameAnswers ==
  ASSUME NEW up, Descends(up), NEW vp, NEW s, NEW A, SameWay(up, vp, A),
         NEW f, Answers(up, s, A, f),
         NEW g, Answers(vp, s, A, g)
  PROVE  \A m \in A : f[m] = g[m]
<1> USE DEF SameWay, Answers
<1> SUFFICES ASSUME {m \in A : f[m] # g[m]} # {}
             PROVE  FALSE
  OBVIOUS
<1>1. PICK m \in {n \in A : f[n] # g[n]} :
             \A n \in {k \in A : f[k] # g[k]} : ~(Depth(n) < Depth(m))
  BY Shallowest
<1>2. CASE <<m, s>> \in Defines \/ up[m] = NoNode
  BY <1>1, <1>2 DEF Onward
<1>3. CASE <<m, s>> \notin Defines /\ up[m] # NoNode
  <2>1. f[m] = f[up[m]] /\ g[m] = g[up[m]]
    BY <1>1, <1>3 DEF Onward
  <2>2. Depth(up[m]) < Depth(m) /\ up[m] \in A
    BY <1>1, <1>3 DEF Descends
  <2> QED
    BY <1>1, <2>1, <2>2
<1> QED
  BY <1>2, <1>3

(* The nodes whose depth is less than k.                                   *)
Below(k) == {n \in Node : Depth(n) < k}

LEMMA AnswersExist ==
  ASSUME NEW up \in [Node -> Node \cup {NoNode}], Descends(up), NEW s
  PROVE  \A k \in Nat : \E f : Answers(up, s, Below(k), f)
<1> DEFINE S == {k \in Nat : ~ \E f : Answers(up, s, Below(k), f)}
<1> SUFFICES ASSUME S # {} PROVE FALSE
  OBVIOUS
<1>0. \A n \in Node : Depth(n) \in Nat
  BY HierarchyAssumption DEF Node, Depth
<1>1. PICK k \in S : \A y \in S : <<y, k>> \notin OpToRel(<, Nat)
  <2>1. S \subseteq Nat
    OBVIOUS
  <2> HIDE DEF S
  <2> QED
    BY <2>1, NatLessThanWellFounded, WFMin
<1>2. k \in Nat /\ \A y \in S : ~(y < k)
  BY <1>1, Zenon DEF OpToRel
<1>3. CASE k = 0
  <2>1. Answers(up, s, Below(0), up)
    BY <1>0 DEF Answers, Below
  <2> QED
    BY <1>1, <1>3, <2>1
<1>4. CASE k # 0
  <2>1. k - 1 \in Nat /\ k - 1 < k
    BY <1>2, <1>4
  <2>2. PICK f : Answers(up, s, Below(k - 1), f)
    BY <1>2, <2>1
  <2> DEFINE g == [n \in Node |-> Onward(up, s, f, n)]
  <2>3. ASSUME NEW m \in Node, Depth(m) < k
        PROVE  g[m] = Onward(up, s, g, m)
    <3>1. CASE <<m, s>> \in Defines \/ up[m] = NoNode
      BY <3>1 DEF Onward
    <3>2. CASE <<m, s>> \notin Defines /\ up[m] # NoNode
      <4>1. /\ up[m] \in Node
            /\ Depth(up[m]) < Depth(m) 
            /\ Depth(up[m]) < k - 1
        BY <1>0, <1>2, <2>3, <3>2 DEF Descends
      <4>2. g[m] = f[up[m]] /\ Onward(up, s, g, m) = g[up[m]]
        BY <3>2 DEF Onward
      <4>3. g[up[m]] = f[up[m]]
        BY <2>2, <4>1 DEF Answers, Below
      <4> QED
        BY <4>2, <4>3
    <3> QED
      BY <3>1, <3>2
  <2>4. Answers(up, s, Below(k), g)
    <3> HIDE DEF g
    <3> QED
      BY <2>3 DEF Answers, Below
  <2> QED
    BY <1>1, <2>4
<1> QED
  BY <1>3, <1>4

(* A search ends: with a node that implements the selector, or with none.  *)
LEMMA SearchEnds ==
  ASSUME NEW up \in [Node -> Node \cup {NoNode}], Descends(up), NEW s
  PROVE  /\ Search(up, s) \in [Node -> Node \cup {NoNode}]
         /\ \A n \in Node : Search(up, s)[n] = Onward(up, s, Search(up, s), n)
<1>0. \A n \in Node : Depth(n) \in Nat
  BY HierarchyAssumption DEF Node, Depth
<1> DEFINE At(n) == CHOOSE f : Answers(up, s, Below(Depth(n) + 1), f)
           F == [n \in Node |-> At(n)[n]]
<1>1. \A n \in Node : Answers(up, s, Below(Depth(n) + 1), At(n))
  BY <1>0, AnswersExist
<1>2. ASSUME NEW n \in Node
      PROVE  F[n] = Onward(up, s, F, n)
  <2>1. At(n)[n] = Onward(up, s, At(n), n)
    BY <1>0, <1>1 DEF Answers, Below
  <2>2. CASE <<n, s>> \in Defines \/ up[n] = NoNode
    BY <2>1, <2>2 DEF Onward
  <2>3. CASE <<n, s>> \notin Defines /\ up[n] # NoNode
    <3>1. up[n] \in Node /\ Depth(up[n]) < Depth(n)
      BY <2>3 DEF Descends
    <3> DEFINE A == Below(Depth(up[n]) + 1)
    <3>2. SameWay(up, up, A)
      BY <1>0, <3>1 DEF Descends, SameWay, Below
    <3>3. Answers(up, s, A, At(n))
      BY <1>0, <1>1, <3>1 DEF Answers, Below
    <3>4. Answers(up, s, A, At(up[n]))
      BY <1>1, <3>1
    <3>5. up[n] \in A
      BY <1>0, <3>1 DEF Below
    <3>6. At(n)[up[n]] = At(up[n])[up[n]]
      <4> HIDE DEF A, At
      <4> QED
        BY <3>2, <3>3, <3>4, <3>5, SameAnswers
    <3>7. F[n] = At(n)[up[n]] /\ Onward(up, s, F, n) = F[up[n]]
      BY <2>1, <2>3 DEF Onward
    <3> QED
      BY <3>1, <3>6, <3>7
  <2> QED
    BY <2>2, <2>3
<1>3. F = [n \in Node |-> Onward(up, s, F, n)]
  <2> F = [n \in Node |-> F[n]]
    OBVIOUS
  <2> HIDE DEF F
  <2> QED
    BY <1>2
<1>4. Search(up, s) = [n \in Node |-> Onward(up, s, Search(up, s), n)]
  <2> HIDE DEF F
  <2> QED
    BY <1>3, Zenon DEF Search
<1> DEFINE G == Search(up, s)
           A == {n \in Node : G[n] \notin Node \cup {NoNode}}
<1>5. A = {}
  <2> SUFFICES ASSUME A # {} PROVE FALSE
    OBVIOUS
  <2>1. PICK n \in A : \A m \in A : ~(Depth(m) < Depth(n))
    <3>1. A \subseteq Node
      OBVIOUS
    <3> HIDE DEF A
    <3> QED
      BY <3>1, Shallowest
  <2>2. G[n] = Onward(up, s, G, n)
    BY <1>4
  <2>3. up[n] # NoNode /\ G[n] = G[up[n]]
    BY <2>2 DEF Onward
  <2>4. up[n] \in Node /\ Depth(up[n]) < Depth(n)
    BY <2>3 DEF Descends
  <2> QED
    BY <2>1, <2>3, <2>4
<1> QED
  <2> HIDE DEF F
  <2>1. \A n \in Node : Search(up, s)[n] = Onward(up, s, Search(up, s), n)
    BY <1>4
  <2> QED
    BY <1>4, <1>5, <2>1

(* What is found from a node depends only on the superclasses on the way.  *)
LEMMA SearchAgrees ==
  ASSUME NEW up \in [Node -> Node \cup {NoNode}], Descends(up),
         NEW vp \in [Node -> Node \cup {NoNode}], Descends(vp),
         NEW A, SameWay(up, vp, A)
  PROVE  \A m \in A, s \in Sel : Search(up, s)[m] = Search(vp, s)[m]
<1> SUFFICES ASSUME NEW s \in Sel
             PROVE  \A m \in A : Search(up, s)[m] = Search(vp, s)[m]
  OBVIOUS
<1>1. Answers(up, s, A, Search(up, s)) /\ Answers(vp, s, A, Search(vp, s))
  BY SearchEnds DEF Answers, SameWay
<1> QED
  BY <1>1, SameAnswers

LEMMA FindIsSearch ==
  ASSUME NEW n, NEW s
  PROVE  class_getInstanceMethod(n, s) = Search(super, s)[n]
  BY DEF class_getInstanceMethod, Search, Onward

-----------------------------------------------------------------------------
(* The caches.                                                             *)

Allocated == {n \in Node : n[1] \in allocated}

(* A superclass lies higher, and a class there is derives from one there is. *)
WayInv ==
  /\ Descends(super)
  /\ \A n \in Allocated : super[n] # NoNode => super[n] \in Allocated

(* The null function is never a class's to forward with.                   *)
HandlerInv ==
  handler = NoHandler =>
    /\ default = "compiled"
    /\ \A t \in Thread : pc[t] \notin {"lockForward", "setDefault", "walk"}

(* What is cached to forward with is the compiled function until a handler *)
(* is set, and from then on the handler, but where it was cached before or *)
(* the walk did not come.                                                  *)
FreshInv ==
  /\ default = "compiled" =>
       \A n \in Node, s \in Sel :
         cache[<<n, s>>] \in Function => cache[<<n, s>>] = Builtin
  /\ default = "static" =>
       \/ \E t \in Thread : pc[t] = "walk"
       \/ \A n \in Node, s \in Sel :
            /\ n[1] \notin unreached /\ <<n, s>> \notin outdated
            /\ cache[<<n, s>>] \in Function
            => cache[<<n, s>>] = handler

(* The labels at which the links have changed and the caches have not.     *)
StaleLabel == {"setSuperclassid", "setMeta", "setMetaid", "invalidate"}

(* A cache entry of a node is empty, or what a search finds, or a function *)
(* to forward with because it finds nothing.                               *)
Agrees(n, s) ==
  \/ cache[<<n, s>>] = NotCached
  \/ cache[<<n, s>>] \in Node /\ cache[<<n, s>>] = Search(super, s)[n]
  \/ cache[<<n, s>>] \in Function /\ Search(super, s)[n] = NoNode

(* But for the classes that were not registered, the caches agree with the *)
(* links from the invalidation of one move to the first link of the next;  *)
(* a class that is still to come has nothing cached.                       *)
CacheInv ==
  /\ cache \in [Node \X Sel -> Node \cup Function \cup {NotCached}]
  /\ \A n \in Node \ Allocated, s \in Sel : cache[<<n, s>>] = NotCached
  /\ \/ \E t \in Thread : pc[t] \in StaleLabel
     \/ \A n \in Allocated, s \in Sel : n[1] \notin unreached => Agrees(n, s)

SearchInv == IInv /\ WayInv /\ HandlerInv /\ FreshInv /\ CacheInv

LEMMA InitSearchInv == Init => SearchInv
<1> SUFFICES ASSUME Init PROVE SearchInv
  OBVIOUS
<1>1. WayInv
  <2>1. ASSUME NEW n \in Node, CompiledParent(n) # NoNode
        PROVE  /\ Depth(CompiledParent(n)) < Depth(n)
               /\ CompiledParent(n) \in Node
               /\ CompiledParent(n)[1] \in Compiled
    <3>1. CASE n = Meta(Root)
      <4>1. CompiledParent(n) = Infra(Root) /\ n[1] = Root
        BY <3>1, HierarchyAssumption DEF CompiledParent, Infra, Meta
      <4> QED
        BY <3>1, <4>1, HierarchyAssumption
        DEF Infra, Meta, Depth, class_isMetaClass, Node
    <3>2. CASE n # Meta(Root)
      <4>1. /\ n[1] \in Compiled \ {Root}
            /\ CompiledParent(n) = <<Parent[n[1]], n[2]>>
        BY <2>1, <3>2, Nodes DEF CompiledParent
      <4> QED
        BY <4>1, HierarchyAssumption DEF Depth, class_isMetaClass, Node
    <3> QED
      BY <3>1, <3>2
  <2> QED
    BY <2>1 DEF Init, WayInv, Descends, Allocated
<1>2. HandlerInv
  BY DEF Init, HandlerInv
<1>3. CacheInv
  BY DEF Init, CacheInv, Agrees, Allocated
<1>4. FreshInv
  BY SentinelAssumption DEF Init, FreshInv, Function
<1> QED
  BY <1>1, <1>2, <1>3, <1>4, InitIInv DEF SearchInv

LEMMA WayStep ==
  ASSUME SearchInv, [Next]_vars
  PROVE  WayInv'
<1> USE DEF WayInv, Allocated
<1>0. /\ super \in [Node -> Node \cup {NoNode}]
      /\ \A c \in Class : Rank[c] \in Nat
      /\ allocated \subseteq Class
  BY HierarchyAssumption DEF SearchInv, IInv, TypesInv
<1>1. ASSUME NEW c \in Class, NEW d \in allocated, Rank[d] < Rank[c],
             \/ super' = [super EXCEPT ![Infra(c)] = Infra(d)]
             \/ super' = [super EXCEPT ![Meta(c)] = Meta(d)]
             \/ super' = [super EXCEPT ![Infra(c)] = Infra(d),
                                       ![Meta(c)] = Meta(d)],
             allocated \subseteq allocated', c \in allocated',
             allocated' \subseteq allocated \cup {c},
             c \notin allocated =>
               super'[Infra(c)] = Infra(d) /\ super'[Meta(c)] = Meta(d)
      PROVE  WayInv'
  <2>1. /\ Depth(Infra(d)) < Depth(Infra(c)) /\ Depth(Meta(d)) < Depth(Meta(c))
        /\ Infra(d) \in Node /\ Meta(d) \in Node
        /\ Infra(d)[1] = d /\ Meta(d)[1] = d
    <3>1. d \in Class /\ Rank[c] \in Nat /\ Rank[d] \in Nat
      BY <1>0
    <3> QED
      BY <1>1, <3>1, Nodes DEF Depth, class_isMetaClass, Infra, Meta
  <2>2. ASSUME NEW n \in Node
        PROVE  \/ super'[n] = super[n] /\ n[1] # c
               \/ super'[n] = super[n] /\ c \in allocated
               \/ n = Infra(c) /\ super'[n] = Infra(d)
               \/ n = Meta(c) /\ super'[n] = Meta(d)
    BY <1>0, <1>1, Nodes
  <2> QED
    BY <1>1, <2>1, <2>2 DEF SearchInv, Descends
<1>2. ASSUME NEW c \in Class, NEW d \in Class, AllocateClassPair(c, d)
      PROVE  WayInv'
  <2>1. /\ super' = [super EXCEPT ![Infra(c)] = Infra(d), ![Meta(c)] = Meta(d)]
        /\ allocated' = allocated \cup {c} /\ d \in allocated
        /\ Rank[d] < Rank[c]
    BY <1>2 DEF AllocateClassPair, SearchInv, IInv, TypesInv
  <2>2. super'[Infra(c)] = Infra(d) /\ super'[Meta(c)] = Meta(d)
    BY <1>0, <2>1, Nodes
  <2> HIDE DEF WayInv
  <2> QED
    BY <1>1, <2>1, <2>2
<1>3. ASSUME NEW t \in Thread, SetSuperclass(t) \/ SetMetaSuperclass(t)
      PROVE  WayInv'
  <2>1. /\ frame[t].cls \in allocated /\ frame[t].sup \in allocated
        /\ frame[t].cls \in Class
        /\ Rank[frame[t].sup] < Rank[frame[t].cls]
    BY <1>3 DEF SetSuperclass, SetMetaSuperclass, SearchInv, IInv, TypesInv,
                FrameInv, MoveLabel
  <2>2. /\ \/ super' = [super EXCEPT ![Infra(frame[t].cls)] = Infra(frame[t].sup)]
           \/ super' = [super EXCEPT ![Meta(frame[t].cls)] = Meta(frame[t].sup)]
        /\ allocated' = allocated
    BY <1>3 DEF SetSuperclass, SetMetaSuperclass
  <2> HIDE DEF WayInv
  <2> QED
    BY <1>1, <2>1, <2>2
<1>4. ASSUME \/ \E c \in Class : RegisterClassPair(c)
             \/ \E n \in Node, s \in Sel : Lookup(n, s)
             \/ \E t \in Thread :
                  \/ \E c, d \in Class : BeginSetSuperclass(t, c, d)
                  \/ \E fwd \in Handler : SetForwardHandler(t, fwd)
                  \/ AcquireLock(t) \/ InvalidateCaches(t) \/ Unlock(t)
                  \/ SetDefault(t) \/ WalkClasses(t)
                  \/ SetSuperclassid(t) \/ SetMetaSuperclassid(t)
             \/ UNCHANGED vars
      PROVE  WayInv'
  <2>1. UNCHANGED <<super, allocated>>
    BY <1>4
    DEF RegisterClassPair, Lookup, BeginSetSuperclass, SetForwardHandler,
        AcquireLock, InvalidateCaches, Unlock, SetDefault, WalkClasses,
        SetSuperclassid, SetMetaSuperclassid, vars, links
  <2> QED
    BY <2>1 DEF SearchInv, Descends
<1> HIDE DEF WayInv, Allocated
<1> QED
  BY <1>2, <1>3, <1>4 DEF Next, Critical

LEMMA HandlerStep ==
  ASSUME SearchInv, [Next]_vars
  PROVE  HandlerInv'
<1> USE DEF HandlerInv
<1>0. pc \in [Thread -> Label]
  BY DEF SearchInv, IInv, TypesInv
<1>1. ASSUME NEW t \in Thread, NEW fwd \in Handler, SetForwardHandler(t, fwd)
      PROVE  HandlerInv'
  BY <1>1, SentinelAssumption DEF SetForwardHandler
<1>2. ASSUME NEW t \in Thread, handler' = handler,
             \/ default' = default
             \/ pc[t] = "setDefault",
             NEW label \in Label, pc' = [pc EXCEPT ![t] = label],
             \/ label \notin {"lockForward", "setDefault", "walk"}
             \/ pc[t] \in {"lockForward", "setDefault"}
      PROVE  HandlerInv'
  BY <1>0, <1>2 DEF SearchInv
<1>3. ASSUME NEW t \in Thread,
             \/ \E c, d \in Class : BeginSetSuperclass(t, c, d)
             \/ AcquireLock(t) \/ InvalidateCaches(t) \/ Unlock(t)
             \/ SetDefault(t) \/ WalkClasses(t)
             \/ SetSuperclass(t) \/ SetSuperclassid(t) \/ SetMetaSuperclass(t)
             \/ SetMetaSuperclassid(t)
      PROVE  HandlerInv'
  <2> HIDE DEF HandlerInv
  <2> QED
    BY <1>2, <1>3
    DEF BeginSetSuperclass, AcquireLock, InvalidateCaches, Unlock, SetDefault,
        WalkClasses, SetSuperclass, SetSuperclassid, SetMetaSuperclass,
        SetMetaSuperclassid, Goto, Label, links
<1>4. ASSUME \/ \E c, d \in Class : AllocateClassPair(c, d)
             \/ \E c \in Class : RegisterClassPair(c)
             \/ \E n \in Node, s \in Sel : Lookup(n, s)
             \/ UNCHANGED vars
      PROVE  HandlerInv'
  <2>1. UNCHANGED <<handler, default, pc>>
    BY <1>4 DEF AllocateClassPair, RegisterClassPair, Lookup, vars, links
  <2> QED
    BY <2>1 DEF SearchInv
<1> HIDE DEF HandlerInv
<1> QED
  BY <1>1, <1>3, <1>4 DEF Next, Critical

(* A look-up caches what a search finds, or else what the class forwards   *)
(* with.                                                                   *)
LEMMA LookupCaches ==
  ASSUME SearchInv, NEW n \in Node, NEW s \in Sel, Lookup(n, s)
  PROVE  CacheInv'
<1>1. /\ super \in [Node -> Node \cup {NoNode}]
      /\ Search(super, s)[n] \in Node \cup {NoNode}
      /\ n \in Allocated
      /\ UNCHANGED <<super, allocated, pc, unreached>>
  BY SearchEnds
  DEF SearchInv, IInv, TypesInv, WayInv, Lookup, links, Allocated
<1>2. ASSUME NEW f, f = IF forward[n] = "lazy" THEN default ELSE forward[n]
      PROVE  Implementation(f) \in Function
  <2>1. f = "static" => default = "static"
    BY <1>2 DEF SearchInv, IInv, TypesInv, ForwardInv, Forward
  <2>2. default = "static" => handler \in Handler
    BY DEF SearchInv, IInv, TypesInv, HandlerInv
  <2> QED
    BY <2>1, <2>2 DEF Implementation, Function
<1>3. \/ UNCHANGED cache
      \/ \E v : /\ cache' = [cache EXCEPT ![<<n, s>>] = v]
                /\ \/ v \in Node /\ v = Search(super, s)[n]
                   \/ v \in Function /\ Search(super, s)[n] = NoNode
  BY <1>1, <1>2, FindIsSearch DEF Lookup
<1>4. CASE UNCHANGED cache
  BY <1>1, <1>4 DEF SearchInv, CacheInv, Agrees, Allocated
<1>5. ASSUME NEW v, cache' = [cache EXCEPT ![<<n, s>>] = v],
             \/ v \in Node /\ v = Search(super, s)[n]
             \/ v \in Function /\ Search(super, s)[n] = NoNode
      PROVE  CacheInv'
  <2>1. cache' \in [Node \X Sel -> Node \cup Function \cup {NotCached}]
    BY <1>5 DEF SearchInv, CacheInv
  <2>2. /\ cache'[<<n, s>>] = v
        /\ \A m \in Node, r \in Sel :
             <<m, r>> # <<n, s>> => cache'[<<m, r>>] = cache[<<m, r>>]
    BY <1>5 DEF SearchInv, CacheInv
  <2>3. Agrees(n, s)'
    BY <1>1, <1>5, <2>2 DEF Agrees
  <2>4. ASSUME NEW m \in Node, NEW r \in Sel, Agrees(m, r)
        PROVE  Agrees(m, r)'
    BY <1>1, <2>2, <2>3, <2>4 DEF Agrees
  <2>5. UNCHANGED Allocated
    BY <1>1 DEF Allocated
  <2>6. \A m \in Node \ Allocated, r \in Sel : cache'[<<m, r>>] = NotCached
    BY <1>1, <2>2 DEF SearchInv, CacheInv
  <2>7. \/ \E t \in Thread : pc'[t] \in StaleLabel
        \/ \A m \in Allocated, r \in Sel : m[1] \notin unreached => Agrees(m, r)'
    BY <1>1, <2>4 DEF SearchInv, CacheInv, Allocated
  <2> QED
    BY <1>1, <2>1, <2>5, <2>6, <2>7 DEF CacheInv
<1> QED
  BY <1>3, <1>4, <1>5

(* A new class has nothing cached, and no search from the others meets it. *)
LEMMA AllocateCaches ==
  ASSUME SearchInv, WayInv', TypesInv',
         NEW c \in Class, NEW d \in Class, AllocateClassPair(c, d)
  PROVE  CacheInv'
<1>1. /\ super \in [Node -> Node \cup {NoNode}]
      /\ super' \in [Node -> Node \cup {NoNode}]
      /\ UNCHANGED <<cache, pc, unreached>>
      /\ allocated' = allocated \cup {c} /\ c \notin allocated
      /\ super' = [super EXCEPT ![Infra(c)] = Infra(d), ![Meta(c)] = Meta(d)]
  BY DEF SearchInv, IInv, TypesInv, AllocateClassPair
<1>2. SameWay(super, super', Allocated)
  BY <1>1, Nodes DEF SameWay, SearchInv, WayInv, Allocated
<1>3. \A m \in Allocated, s \in Sel : Search(super, s)[m] = Search(super', s)[m]
  <2>1. Descends(super) /\ super \in [Node -> Node \cup {NoNode}]
    BY <1>1 DEF SearchInv, WayInv
  <2>2. Descends(super') /\ super' \in [Node -> Node \cup {NoNode}]
    BY <1>1 DEF WayInv, Descends
  <2> QED
    BY <1>2, <2>1, <2>2, SearchAgrees
<1>4. ASSUME NEW n \in Allocated, NEW s \in Sel, Agrees(n, s)
      PROVE  Agrees(n, s)'
  BY <1>1, <1>3, <1>4 DEF Agrees
<1>5. Allocated \subseteq Allocated'
  BY <1>1 DEF Allocated
<1>6. ASSUME NEW n \in Allocated' \ Allocated, NEW s \in Sel
      PROVE  Agrees(n, s)'
  <2>1. cache[<<n, s>>] = NotCached
    BY DEF SearchInv, CacheInv, Allocated
  <2> QED
    BY <1>1, <2>1 DEF Agrees
<1> QED
  BY <1>1, <1>4, <1>5, <1>6 DEF SearchInv, CacheInv, Allocated

(* The caches of all classes but those that are not registered are emptied. *)
LEMMA InvalidateEmpties ==
  ASSUME SearchInv, NEW t \in Thread, InvalidateCaches(t)
  PROVE  CacheInv'
<1>1. /\ cache' = [e \in Node \X Sel |->
                     IF e[1][1] \in registered THEN NotCached ELSE cache[e]]
      /\ unreached' = unreached \cup (allocated \ registered)
      /\ allocated' = allocated
  BY DEF InvalidateCaches, Pass, links
<1>2. ASSUME NEW n \in Node, NEW s \in Sel
      PROVE  cache'[<<n, s>>] \in {NotCached, cache[<<n, s>>]}
  BY <1>1
<1>3. ASSUME NEW n \in Node, NEW s \in Sel, n[1] \in registered
      PROVE  cache'[<<n, s>>] = NotCached
  BY <1>1, <1>3
<1>4. cache' \in [Node \X Sel -> Node \cup Function \cup {NotCached}]
  BY <1>1 DEF SearchInv, CacheInv
<1> QED
  BY <1>1, <1>2, <1>3, <1>4 DEF SearchInv, CacheInv, Allocated, Agrees

LEMMA CacheStep ==
  ASSUME SearchInv, [Next]_vars, WayInv', TypesInv'
  PROVE  CacheInv'
<1>0. pc \in [Thread -> Label]
  BY DEF SearchInv, IInv, TypesInv
<1>1. ASSUME NEW t \in Thread,
             SetSuperclass(t) \/ SetSuperclassid(t) \/ SetMetaSuperclass(t)
               \/ SetMetaSuperclassid(t)
      PROVE  CacheInv'
  <2>1. /\ UNCHANGED <<cache, allocated>>
        /\ pc'[t] \in StaleLabel
    BY <1>0, <1>1
    DEF SetSuperclass, SetSuperclassid, SetMetaSuperclass, SetMetaSuperclassid,
        Goto, StaleLabel
  <2> QED
    BY <2>1 DEF SearchInv, CacheInv, Allocated
<1>2. ASSUME UNCHANGED <<cache, super, allocated>>, unreached \subseteq unreached',
             \A t \in Thread : pc[t] \in StaleLabel => pc'[t] \in StaleLabel
      PROVE  CacheInv'
  BY <1>2 DEF SearchInv, CacheInv, Allocated, Agrees
<1>3. ASSUME NEW t \in Thread,
             \/ \E c, d \in Class : BeginSetSuperclass(t, c, d)
             \/ \E fwd \in Handler : SetForwardHandler(t, fwd)
             \/ AcquireLock(t) \/ Unlock(t) \/ SetDefault(t) \/ WalkClasses(t)
      PROVE  CacheInv'
  <2>1. /\ UNCHANGED <<cache, super, allocated>>
        /\ unreached \subseteq unreached'
        /\ pc[t] \notin StaleLabel
        /\ \A u \in Thread \ {t} : pc'[u] = pc[u]
    BY <1>0, <1>3
    DEF BeginSetSuperclass, SetForwardHandler, AcquireLock, Unlock, SetDefault,
        WalkClasses, Goto, Pass, links, StaleLabel
  <2> QED
    BY <1>2, <2>1
<1>4. ASSUME (\E c \in Class : RegisterClassPair(c)) \/ UNCHANGED vars
      PROVE  CacheInv'
  BY <1>2, <1>4 DEF RegisterClassPair, vars, links
<1> QED
  BY <1>1, <1>3, <1>4, LookupCaches, AllocateCaches, InvalidateEmpties
  DEF Next, Critical

(* What a look-up caches to forward with is the compiled function before   *)
(* any handler is set, and the handler once the walk has been there.       *)
LEMMA LookupForwards ==
  ASSUME SearchInv, NEW n \in Node, NEW s \in Sel, Lookup(n, s)
  PROVE  FreshInv'
<1> DEFINE f == IF forward[n] = "lazy" THEN default ELSE forward[n]
<1>1. /\ UNCHANGED <<default, handler, pc, unreached, outdated>>
      /\ n[1] \in allocated
  BY DEF Lookup
<1>2. default = "compiled" => f = "compiled"
  BY DEF SearchInv, IInv, TypesInv, ForwardInv, Forward
<1>3. ASSUME default = "static", \A t \in Thread : pc[t] # "walk",
             n[1] \notin unreached
      PROVE  f = "static"
  BY <1>1, <1>3 DEF SearchInv, IInv, TypesInv, ForwardInv, Forward
<1>4. \/ UNCHANGED cache
      \/ \E v \in Node : cache' = [cache EXCEPT ![<<n, s>>] = v]
      \/ cache' = [cache EXCEPT ![<<n, s>>] = Implementation(f)]
  <2>1. /\ super \in [Node -> Node \cup {NoNode}]
        /\ Search(super, s)[n] \in Node \cup {NoNode}
        /\ class_getInstanceMethod(n, s) = Search(super, s)[n]
    BY SearchEnds, FindIsSearch DEF SearchInv, IInv, TypesInv, WayInv
  <2> QED
    BY <2>1 DEF Lookup
<1>5. \A v \in Node : v \notin Function
  BY SentinelAssumption DEF Function
<1>6. ASSUME NEW v, cache' = [cache EXCEPT ![<<n, s>>] = v]
      PROVE  /\ cache'[<<n, s>>] = v
             /\ \A m \in Node, r \in Sel :
                  <<m, r>> # <<n, s>> => cache'[<<m, r>>] = cache[<<m, r>>]
  BY <1>6 DEF SearchInv, CacheInv
<1> HIDE DEF f
<1>7. CASE UNCHANGED cache
  BY <1>1, <1>7 DEF SearchInv, FreshInv
<1>8. ASSUME NEW v \in Node, cache' = [cache EXCEPT ![<<n, s>>] = v]
      PROVE  FreshInv'
  BY <1>1, <1>5, <1>6, <1>8 DEF SearchInv, FreshInv
<1>9. CASE cache' = [cache EXCEPT ![<<n, s>>] = Implementation(f)]
  <2>1. cache'[<<n, s>>] = IF f = "static" THEN handler ELSE Builtin
    BY <1>6, <1>9 DEF Implementation
  <2>2. ASSUME NEW m \in Node, NEW r \in Sel, <<m, r>> # <<n, s>>
        PROVE  cache'[<<m, r>>] = cache[<<m, r>>]
    BY <1>6, <1>9, <2>2
  <2>3. ASSUME default = "compiled", NEW m \in Node, NEW r \in Sel,
               cache'[<<m, r>>] \in Function
        PROVE  cache'[<<m, r>>] = Builtin
    BY <1>2, <2>1, <2>2, <2>3 DEF SearchInv, FreshInv
  <2>4. ASSUME default = "static", \A t \in Thread : pc[t] # "walk",
               NEW m \in Node, NEW r \in Sel,
               m[1] \notin unreached, <<m, r>> \notin outdated,
               cache'[<<m, r>>] \in Function
        PROVE  cache'[<<m, r>>] = handler
    BY <1>3, <2>1, <2>2, <2>4 DEF SearchInv, FreshInv
  <2> QED
    BY <1>1, <2>3, <2>4 DEF FreshInv
<1> QED
  BY <1>4, <1>7, <1>8, <1>9

LEMMA FreshStep ==
  ASSUME SearchInv, [Next]_vars
  PROVE  FreshInv'
<1>0. /\ pc \in [Thread -> Label]
      /\ cache \in [Node \X Sel -> Node \cup Function \cup {NotCached}]
      /\ NotCached \notin Function
  BY SentinelAssumption DEF SearchInv, IInv, TypesInv, CacheInv, Function
<1>1. ASSUME NEW t \in Thread, NEW fwd \in Handler, SetForwardHandler(t, fwd)
      PROVE  FreshInv'
  <2>1. /\ UNCHANGED <<cache, default>> /\ outdated' = Forwarding
    BY <1>1 DEF SetForwardHandler
  <2>2. \A n \in Node, s \in Sel :
          cache[<<n, s>>] \in Function => <<n, s>> \in outdated'
    BY <2>1 DEF Forwarding
  <2> QED
    BY <2>1, <2>2 DEF SearchInv, FreshInv
<1>2. ASSUME NEW t \in Thread, SetDefault(t)
      PROVE  FreshInv'
  <2>1. default' = "static" /\ pc'[t] = "walk"
    BY <1>0, <1>2 DEF SetDefault, Goto
  <2> QED
    BY <2>1 DEF FreshInv
<1>3. ASSUME NEW t \in Thread, WalkClasses(t)
      PROVE  FreshInv'
  <2>1. UNCHANGED <<cache, default>> /\ outdated' = Forwarding
    BY <1>3 DEF WalkClasses
  <2>2. \A n \in Node, s \in Sel :
          cache[<<n, s>>] \in Function => <<n, s>> \in outdated'
    BY <2>1 DEF Forwarding
  <2> QED
    BY <2>1, <2>2 DEF SearchInv, FreshInv
<1>4. ASSUME NEW t \in Thread, InvalidateCaches(t)
      PROVE  FreshInv'
  <2>1. /\ UNCHANGED <<default, handler>> /\ unreached \subseteq unreached'
        /\ \A u \in Thread : pc[u] = "walk" => pc'[u] = "walk"
    BY <1>0, <1>4 DEF InvalidateCaches, Pass, Goto
  <2>2. ASSUME NEW n \in Node, NEW s \in Sel, cache'[<<n, s>>] \in Function
        PROVE  /\ cache'[<<n, s>>] = cache[<<n, s>>]
               /\ <<n, s>> \in outdated => <<n, s>> \in outdated'
    BY <1>0, <1>4, <2>2 DEF InvalidateCaches
  <2> QED
    BY <2>1, <2>2 DEF SearchInv, FreshInv
<1>5. ASSUME UNCHANGED <<cache, default, handler, unreached, outdated>>,
             \A u \in Thread : pc[u] = "walk" => pc'[u] = "walk"
      PROVE  FreshInv'
  BY <1>5 DEF SearchInv, FreshInv
<1>6. ASSUME \/ \E c, d \in Class : AllocateClassPair(c, d)
             \/ \E c \in Class : RegisterClassPair(c)
             \/ \E t \in Thread :
                  \/ \E c, d \in Class : BeginSetSuperclass(t, c, d)
                  \/ AcquireLock(t) \/ Unlock(t)
                  \/ SetSuperclass(t) \/ SetSuperclassid(t)
                  \/ SetMetaSuperclass(t) \/ SetMetaSuperclassid(t)
             \/ UNCHANGED vars
      PROVE  FreshInv'
  <2>1. /\ UNCHANGED <<cache, default, handler, unreached, outdated>>
        /\ \A u \in Thread : pc[u] = "walk" => pc'[u] = "walk"
    BY <1>0, <1>6
    DEF AllocateClassPair, RegisterClassPair, BeginSetSuperclass, AcquireLock,
        Unlock, SetSuperclass, SetSuperclassid, SetMetaSuperclass,
        SetMetaSuperclassid, Goto, vars
  <2> QED
    BY <1>5, <2>1
<1> QED
  BY <1>1, <1>2, <1>3, <1>4, <1>6, LookupForwards DEF Next, Critical

LEMMA SearchInvariance == Spec => []SearchInv
<1>1. SearchInv /\ [Next]_vars => SearchInv'
  BY TypesStep, LockStep, FrameStep, LinkStep, ForwardStep,
     WayStep, HandlerStep, FreshStep, CacheStep
  DEF SearchInv, IInv
<1> QED
  BY InitSearchInv, <1>1, PTL DEF Spec

(* The state has its types; that a search ends, and that no look-up between *)
(* the steps of objc_setForwardHandler can cache the null function, is in it. *)
THEOREM TypeCorrect == Spec => []TypeOK
<1>1. SearchInv => TypeOK
  BY DEF SearchInv, IInv, TypesInv, CacheInv, TypeOK
<1> QED
  BY SearchInvariance, <1>1, PTL

(* Whatever classes are moved, below whatever others, while messages fill  *)
(* the caches on both sides: when no call is under way a cache says what a *)
(* search does, and a class responds to what a search finds.               *)
THEOREM CachesTheorem == Spec => []CachesFollow
<1>1. ASSUME SearchInv, Quiet, NEW c \in allocated \ unreached, NEW s \in Sel,
             NEW n \in {Infra(c), Meta(c)}
      PROVE  /\ cache[<<n, s>>] \in Node =>
                  cache[<<n, s>>] = class_getInstanceMethod(n, s)
             /\ class_respondsToSelector(n, s) <=>
                  class_getInstanceMethod(n, s) # NoNode
  <2>1. n \in Allocated /\ n[1] = c
    BY <1>1, Nodes DEF SearchInv, IInv, TypesInv, Allocated
  <2>2. Agrees(n, s)
    BY <1>1, <2>1, NobodyCritical
    DEF SearchInv, CacheInv, CriticalLabel, StaleLabel
  <2>3. Search(super, s)[n] \in Node \cup {NoNode}
    <3>1. super \in [Node -> Node \cup {NoNode}] /\ Descends(super)
      BY <1>1 DEF SearchInv, IInv, TypesInv, WayInv
    <3> QED
      BY <2>1, <3>1, SearchEnds DEF Allocated
  <2>4. NotCached \notin Node /\ NoNode \notin Node
        /\ NotCached \notin Function /\ Node \cap Function = {}
    BY SentinelAssumption DEF Function
  <2> QED
    BY <2>2, <2>3, <2>4, FindIsSearch DEF Agrees, class_respondsToSelector
<1>2. SearchInv => CachesFollow
  BY <1>1 DEF CachesFollow, class_getClassMethod
<1> QED
  BY SearchInvariance, <1>2, PTL

(* Once a handler is set, the classes the walk has reached and those that  *)
(* come later forward with it, on both sides, from their forward methods   *)
(* and from whatever their caches are filled with from then on, however    *)
(* many threads set handlers, move classes and look methods up meanwhile.  *)
(* What was cached before is excepted: nothing empties those caches.       *)
THEOREM ForwardTheorem == Spec => []ForwardIsDefault
<1>1. ASSUME SearchInv, Quiet, NEW c \in allocated \ unreached,
             NEW n \in {Infra(c), Meta(c)}
      PROVE  /\ forward[n] # "lazy" => Implementation(forward[n]) = _objc_msgForward
             /\ \A s \in Sel :
                  cache[<<n, s>>] \in Function /\ <<n, s>> \notin outdated
                    => cache[<<n, s>>] = _objc_msgForward
  <2>1. n \in Node /\ n[1] = c /\ c \in allocated /\ c \notin unreached
    BY <1>1, Nodes DEF SearchInv, IInv, TypesInv
  <2>2. \A t \in Thread : pc[t] # "walk"
    BY <1>1, NobodyCritical DEF SearchInv, CriticalLabel
  <2>3. default \in {"compiled", "static"}
    BY <1>1 DEF SearchInv, IInv, TypesInv, Forward
  <2>4. forward[n] # "lazy" => forward[n] = default
    BY <1>1, <2>1, <2>2 DEF SearchInv, IInv, TypesInv, ForwardInv, Forward
  <2>5. ASSUME NEW s \in Sel, cache[<<n, s>>] \in Function,
               <<n, s>> \notin outdated
        PROVE  cache[<<n, s>>] = IF default = "static" THEN handler ELSE Builtin
    BY <1>1, <2>1, <2>2, <2>3, <2>5 DEF SearchInv, FreshInv
  <2> QED
    BY <2>4, <2>5 DEF _objc_msgForward, Implementation
<1>2. SearchInv => ForwardIsDefault
  BY <1>1 DEF ForwardIsDefault
<1> QED
  BY SearchInvariance, <1>2, PTL
=============================================================================
