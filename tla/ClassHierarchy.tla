---------------------------- MODULE ClassHierarchy ----------------------------
(***************************************************************************)
(* The links between classes, and what looks methods up along them:        *)
(* class_setSuperclass (src/src/class.m), objc_setForwardHandler           *)
(* (src/src/runtime.m) and the queries of src/src/class.h.                 *)
(*                                                                         *)
(* A class pair is two nodes, the infraclass and the metaclass, each with a *)
(* superclass, a superclass id, a cache and a forward method.  The two     *)
(* functions take the universe lock for several writes; look-ups take no   *)
(* lock and fill the caches in between.                                    *)
(***************************************************************************)
EXTENDS Naturals, FiniteSets

CONSTANTS
  Thread,       (* the threads that call the two functions                 *)
  Class,        (* class pairs; a class id is the class it stands for      *)
  Compiled,     (* the classes that come with the program                  *)
  Root,         (* the compiled class without a superclass                 *)
  Rank,         (* callers derive classes from classes of a lower rank     *)
  Parent,       (* the superclass of each compiled class but the root      *)
  Sel,          (* selectors                                               *)
  Defines,      (* <<node, selector>>: the methods of the classes          *)
  Sent,         (* <<node, selector>>: the messages this client sends      *)
  Handler,      (* functions passed to objc_setForwardHandler              *)
  Builtin,      (* the function the compiled forward method has            *)
  NoThread,     (* the lock is free                                        *)
  NoNode,       (* Nil                                                     *)
  NotCached,    (* an empty cache entry                                    *)
  NoHandler     (* the null function                                       *)

Infra(c) == <<c, "infra">>
Meta(c)  == <<c, "meta">>
Node     == Class \X {"infra", "meta"}

(* The methods a class can forward with: the compiled one, the one that    *)
(* objc_setForwardHandler keeps in a static struct, or not looked up yet.  *)
Forward == {"compiled", "static"}

ASSUME HierarchyAssumption ==
  /\ Root \in Compiled /\ Compiled \subseteq Class
  /\ Rank \in [Class -> Nat]
  /\ Parent \in [Compiled \ {Root} -> Compiled]
  /\ \A c \in Compiled \ {Root} : Rank[Parent[c]] < Rank[c]
  /\ Defines \subseteq Node \X Sel /\ Sent \subseteq Node \X Sel

ASSUME SentinelAssumption ==
  /\ NoThread \notin Thread
  /\ NoNode \notin Node /\ NotCached \notin Node
  /\ NotCached \notin Handler \cup {Builtin}
  /\ NoHandler \notin Handler \cup {Builtin}
  /\ Node \cap (Handler \cup {Builtin}) = {}

VARIABLES
  super,        (* each node's superclass                                  *)
  superid,      (* each node's superclass id                               *)
  allocated,    (* the class pairs there are                               *)
  registered,   (* the class table                                         *)
  cache,        (* per node: selector to the implementor, or a handler     *)
  forward,      (* each node's forward method                              *)
  default,      (* universe->classdefaults.forwardmethod                   *)
  handler,      (* the implementation in the static struct                 *)
  lock,         (* the owner of the universe lock                          *)
  pc,           (* where each thread is                                    *)
  frame,        (* the arguments of each thread's call                     *)
  unreached,    (* history: classes that were allocated and not registered *)
                (* while something was done to all classes                 *)
  outdated      (* history: the messages whose forwarding was cached when  *)
                (* a handler was last set                                  *)

links == <<super, superid, allocated, registered>>
vars == <<links, cache, forward, default, handler, lock, pc, frame, unreached,
          outdated>>

-----------------------------------------------------------------------------
(* The queries of class.h.                                                 *)

class_getSuperclass(n) == super[n]

(* The nearest node up from n that implements s.                           *)
class_getInstanceMethod(n, s) ==
  LET find[m \in Node] ==
        CASE <<m, s>> \in Defines -> m
          [] <<m, s>> \notin Defines /\ super[m] = NoNode -> NoNode
          [] OTHER -> find[super[m]]
  IN  find[n]

class_getClassMethod(c, s) == class_getInstanceMethod(Meta(c), s)

class_isMetaClass(n) == n[2] = "meta"

(* Whether a message would be answered without forwarding it; the cache may *)
(* know, and only an entry for a method counts.                            *)
class_respondsToSelector(n, s) ==
  \/ cache[<<n, s>>] \in Node
  \/ cache[<<n, s>>] = NotCached /\ class_getInstanceMethod(n, s) # NoNode

Implementation(f) == IF f = "static" THEN handler ELSE Builtin

_objc_msgForward == Implementation(default)

-----------------------------------------------------------------------------
NoFrame == [cls |-> Root, sup |-> Root]

Goto(t, label) == pc' = [pc EXCEPT ![t] = label]

CompiledParent(n) ==
  CASE n[1] \notin Compiled -> NoNode
    [] n = Infra(Root) -> NoNode
    [] n = Meta(Root) -> Infra(Root)
    [] OTHER -> <<Parent[n[1]], n[2]>>

Init ==
  /\ super = [n \in Node |-> CompiledParent(n)]
  /\ superid = [n \in Node |-> IF CompiledParent(n) = NoNode
                               THEN NoNode ELSE CompiledParent(n)[1]]
  /\ allocated = Compiled
  /\ registered = Compiled
  /\ cache = [e \in Node \X Sel |-> NotCached]
  /\ forward = [n \in Node |-> "lazy"]
  /\ default = "compiled"
  /\ handler = NoHandler
  /\ lock = NoThread
  /\ pc = [t \in Thread |-> "idle"]
  /\ frame = [t \in Thread |-> NoFrame]
  /\ unreached = {}
  /\ outdated = {}

(* objc_allocateClassPair links both nodes; whether the default forward    *)
(* method is copied now or asked for later is up to the runtime.           *)
AllocateClassPair(c, d) ==
  /\ c \notin allocated
  /\ d \in registered /\ Rank[d] < Rank[c]
  /\ allocated' = allocated \cup {c}
  /\ super' = [super EXCEPT ![Infra(c)] = Infra(d), ![Meta(c)] = Meta(d)]
  /\ superid' = [superid EXCEPT ![Infra(c)] = d, ![Meta(c)] = d]
  /\ \E f \in {default, "lazy"} :
       forward' = [forward EXCEPT ![Infra(c)] = f, ![Meta(c)] = f]
  /\ UNCHANGED <<registered, cache, default, handler, lock, pc, frame,
                 unreached, outdated>>

RegisterClassPair(c) ==
  /\ c \in allocated \ registered
  /\ registered' = registered \cup {c}
  /\ UNCHANGED <<super, superid, allocated, cache, forward, default, handler,
                 lock, pc, frame, unreached, outdated>>

(* class_getMethodImplementation: the cached answer, or the nearest        *)
(* implementor, which is cached, or the node's forward handler, which the  *)
(* node asks the universe for the first time and the cache may keep.       *)
Lookup(n, s) ==
  LET m == class_getInstanceMethod(n, s)
      f == IF forward[n] = "lazy" THEN default ELSE forward[n]
  IN
  /\ <<n, s>> \in Sent /\ n[1] \in allocated
  /\ cache[<<n, s>>] = NotCached
  /\ \/ /\ m # NoNode
        /\ cache' = [cache EXCEPT ![<<n, s>>] = m]
        /\ UNCHANGED forward
     \/ /\ m = NoNode
        /\ forward' = [forward EXCEPT ![n] = f]
        /\ cache' \in {cache, [cache EXCEPT ![<<n, s>>] = Implementation(f)]}
  /\ UNCHANGED <<links, default, handler, lock, pc, frame,
                 unreached, outdated>>

-----------------------------------------------------------------------------
(* class_setSuperclass                                                     *)

BeginSetSuperclass(t, c, d) ==
  /\ pc[t] = "idle"
  /\ c \in allocated /\ d \in registered /\ Rank[d] < Rank[c]
  /\ frame' = [frame EXCEPT ![t] = [cls |-> c, sup |-> d]]
  /\ Goto(t, "lock")
  /\ UNCHANGED <<links, cache, forward, default, handler, lock,
                 unreached, outdated>>

AcquireLock(t) ==
  /\ pc[t] \in {"lock", "lockForward"}
  /\ lock = NoThread
  /\ lock' = t
  /\ Goto(t, IF pc[t] = "lock" THEN "setSuperclass" ELSE "setDefault")
  /\ UNCHANGED <<links, cache, forward, default, handler, frame,
                 unreached, outdated>>

SetSuperclass(t) ==
  /\ pc[t] = "setSuperclass"
  /\ super' = [super EXCEPT ![Infra(frame[t].cls)] = Infra(frame[t].sup)]
  /\ Goto(t, "setSuperclassid")
  /\ UNCHANGED <<superid, allocated, registered, cache, forward, default,
                 handler, lock, frame, unreached, outdated>>

SetSuperclassid(t) ==
  /\ pc[t] = "setSuperclassid"
  /\ superid' = [superid EXCEPT ![Infra(frame[t].cls)] = frame[t].sup]
  /\ Goto(t, "setMeta")
  /\ UNCHANGED <<super, allocated, registered, cache, forward, default,
                 handler, lock, frame, unreached, outdated>>

(* Faulty: the metaclass is derived from the superclass itself.            *)
SetMetaSuperclassToInfra(t) ==
  /\ pc[t] = "setMeta"
  /\ super' = [super EXCEPT ![Meta(frame[t].cls)] = Infra(frame[t].sup)]
  /\ Goto(t, "setMetaid")
  /\ UNCHANGED <<superid, allocated, registered, cache, forward, default,
                 handler, lock, frame, unreached, outdated>>

(* The metaclass follows; a superclass always has a metaclass.             *)
SetMetaSuperclass(t) ==
  /\ pc[t] = "setMeta"
  /\ super' = [super EXCEPT ![Meta(frame[t].cls)] = Meta(frame[t].sup)]
  /\ Goto(t, "setMetaid")
  /\ UNCHANGED <<superid, allocated, registered, cache, forward, default,
                 handler, lock, frame, unreached, outdated>>

(* Faulty: the id of the metaclass's own superclass is stored.             *)
SetMetaSuperclassidAbove(t) ==
  /\ pc[t] = "setMetaid"
  /\ superid' = [superid EXCEPT ![Infra(frame[t].cls)] =
                   superid[Meta(frame[t].cls)]]
  /\ Goto(t, "invalidate")
  /\ UNCHANGED <<super, allocated, registered, cache, forward, default,
                 handler, lock, frame, unreached, outdated>>

(* The id of the metaclass's new superclass goes to the infraclass again;  *)
(* the metaclass keeps the superclass id it had.                           *)
SetMetaSuperclassid(t) ==
  /\ pc[t] = "setMetaid"
  /\ superid' = [superid EXCEPT ![Infra(frame[t].cls)] =
                   super[Meta(frame[t].cls)][1]]
  /\ Goto(t, "invalidate")
  /\ UNCHANGED <<super, allocated, registered, cache, forward, default,
                 handler, lock, frame, unreached, outdated>>

(* Something is done to all classes: the table has the registered ones.    *)
Pass == unreached' = unreached \cup (allocated \ registered)

(* Faulty: only the class itself is invalidated.                           *)
InvalidateClass(t) ==
  /\ pc[t] = "invalidate"
  /\ cache' = [e \in Node \X Sel |->
                 IF e[1][1] = frame[t].cls THEN NotCached ELSE cache[e]]
  /\ outdated' = {e \in outdated : e[1][1] # frame[t].cls}
  /\ Pass
  /\ Goto(t, "unlock")
  /\ UNCHANGED <<links, forward, default, handler, lock, frame>>

InvalidateCaches(t) ==
  /\ pc[t] = "invalidate"
  /\ cache' = [e \in Node \X Sel |->
                 IF e[1][1] \in registered THEN NotCached ELSE cache[e]]
  /\ outdated' = {e \in outdated : e[1][1] \notin registered}
  /\ Pass
  /\ Goto(t, "unlock")
  /\ UNCHANGED <<links, forward, default, handler, lock, frame>>

Unlock(t) ==
  /\ pc[t] = "unlock"
  /\ lock' = NoThread
  /\ frame' = [frame EXCEPT ![t] = NoFrame]
  /\ Goto(t, "idle")
  /\ UNCHANGED <<links, cache, forward, default, handler, unreached, outdated>>

-----------------------------------------------------------------------------
(* objc_setForwardHandler                                                  *)

Function == Handler \cup {Builtin}

(* What the caches forward; objc_setForwardHandler empties none of them.   *)
Forwarding == {e \in Node \X Sel : cache[e] \in Function}

(* Faulty: the struct is installed and its implementation is not set.      *)
SetForwardHandlerEmpty(t, fwd) ==
  /\ pc[t] = "idle"
  /\ Goto(t, "lockForward")
  /\ UNCHANGED <<links, cache, forward, default, handler, lock, frame,
                 unreached, outdated>>

(* The static struct is written before the lock is taken: classes that have *)
(* it already use the new function from here on.                           *)
SetForwardHandler(t, fwd) ==
  /\ pc[t] = "idle"
  /\ handler' = fwd
  /\ outdated' = Forwarding
  /\ Goto(t, "lockForward")
  /\ UNCHANGED <<links, cache, forward, default, lock, frame, unreached>>

SetDefault(t) ==
  /\ pc[t] = "setDefault"
  /\ default' = "static"
  /\ Goto(t, "walk")
  /\ UNCHANGED <<links, cache, forward, handler, lock, frame,
                 unreached, outdated>>

(* Faulty: the walk does not visit the metaclasses.                        *)
WalkInfraclasses(t) ==
  /\ pc[t] = "walk"
  /\ forward' = [n \in Node |-> IF n[1] \in registered /\ ~class_isMetaClass(n)
                                THEN "static" ELSE forward[n]]
  /\ Pass
  /\ outdated' = Forwarding
  /\ Goto(t, "unlock")
  /\ UNCHANGED <<links, cache, default, handler, lock, frame>>

(* The walk over the registered classes and their metaclasses.             *)
WalkClasses(t) ==
  /\ pc[t] = "walk"
  /\ forward' = [n \in Node |-> IF n[1] \in registered THEN "static"
                                                       ELSE forward[n]]
  /\ Pass
  /\ outdated' = Forwarding
  /\ Goto(t, "unlock")
  /\ UNCHANGED <<links, cache, default, handler, lock, frame>>

-----------------------------------------------------------------------------
(* A thread that has the lock, by what it does next.                       *)
Critical(t) ==
  \/ SetSuperclass(t) \/ SetSuperclassid(t)
  \/ SetMetaSuperclass(t) \/ SetMetaSuperclassid(t) \/ InvalidateCaches(t)
  \/ SetDefault(t) \/ WalkClasses(t)
  \/ Unlock(t)

Next ==
  \/ \E c, d \in Class : AllocateClassPair(c, d)
  \/ \E c \in Class : RegisterClassPair(c)
  \/ \E n \in Node, s \in Sel : Lookup(n, s)
  \/ \E t \in Thread :
       \/ \E c, d \in Class : BeginSetSuperclass(t, c, d)
       \/ \E fwd \in Handler : SetForwardHandler(t, fwd)
       \/ AcquireLock(t)
       \/ Critical(t)

Spec == Init /\ [][Next]_vars

-----------------------------------------------------------------------------
(* Properties.                                                             *)

Label == {"idle", "lock", "setSuperclass", "setSuperclassid", "setMeta",
          "setMetaid", "invalidate", "unlock", "lockForward", "setDefault",
          "walk"}

(* The state has its types: a cache holds no null function, however a      *)
(* lookup comes between the steps of objc_setForwardHandler.               *)
TypeOK ==
  /\ super \in [Node -> Node \cup {NoNode}]
  /\ superid \in [Node -> Class \cup {NoNode}]
  /\ registered \subseteq allocated /\ allocated \subseteq Class
  /\ cache \in [Node \X Sel -> Node \cup Function \cup {NotCached}]
  /\ forward \in [Node -> Forward \cup {"lazy"}]
  /\ default \in Forward
  /\ handler \in Handler \cup {NoHandler}
  /\ lock \in Thread \cup {NoThread}
  /\ pc \in [Thread -> Label]
  /\ frame \in [Thread -> [cls : Class, sup : Class]]
  /\ unreached \subseteq allocated
  /\ outdated \subseteq Node \X Sel

Quiet == lock = NoThread

(* A metaclass inherits from the metaclass of the superclass, and the      *)
(* root's from the root: whenever no call is under way the two sides of the *)
(* hierarchy are the same tree, as test/07_class/super.m has it, whatever  *)
(* classes have been moved by class_setSuperclass.                         *)
MetaParallel ==
  Quiet => \A c \in allocated :
    class_getSuperclass(Meta(c)) =
      IF class_getSuperclass(Infra(c)) = NoNode
      THEN Infra(c) ELSE Meta(class_getSuperclass(Infra(c))[1])

(* The superclass id of a class is its superclass's, although              *)
(* class_setSuperclass stores two ids in it one after the other: the id of *)
(* the superclass's metaclass is the same.                                 *)
SuperidFollows ==
  Quiet => \A c \in allocated \ {Root} :
    superid[Infra(c)] = class_getSuperclass(Infra(c))[1]

(* Whenever no call is under way a cache says what a search does, in the   *)
(* class that was moved, in those below it and on both sides: an entry for *)
(* a method is the one the search finds, and a class responds to what it   *)
(* or a class above it implements, class messages included, and to nothing *)
(* else.  Classes that were not registered when the caches were            *)
(* invalidated are excepted.                                               *)
CachesFollow ==
  Quiet => \A c \in allocated \ unreached, s \in Sel :
    /\ \A n \in {Infra(c), Meta(c)} :
         cache[<<n, s>>] \in Node =>
           cache[<<n, s>>] = class_getInstanceMethod(n, s)
    /\ class_respondsToSelector(Infra(c), s) <=>
         class_getInstanceMethod(Infra(c), s) # NoNode
    /\ class_respondsToSelector(Meta(c), s) <=>
         class_getClassMethod(c, s) # NoNode

(* objc_setForwardHandler promises "all present and future classes".       *)
(* Whenever no call is under way that is so of their forward methods and   *)
(* of what is cached from then on, of both sides of the classes that were  *)
(* registered while it ran and of those allocated later.  It is not so of  *)
(* messages whose forwarding was cached before, as long as nothing else    *)
(* empties that cache: they go on to the function they went to.            *)
ForwardIsDefault ==
  Quiet => \A c \in allocated \ unreached :
    \A n \in {Infra(c), Meta(c)} :
      /\ forward[n] # "lazy" => Implementation(forward[n]) = _objc_msgForward
      /\ \A s \in Sel :
           cache[<<n, s>>] \in Function /\ <<n, s>> \notin outdated
             => cache[<<n, s>>] = _objc_msgForward
=============================================================================
