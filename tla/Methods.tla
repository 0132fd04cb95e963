------------------------------ MODULE Methods ------------------------------
(***************************************************************************)
(* Method dispatch as src/src/class.m, src/src/method.m and                *)
(* src/src/method.h change it: class_addMethod, class_replaceMethod,       *)
(* method_setImplementation, method_exchangeImplementations and the caching *)
(* lookup class_getMethodImplementation, called by several threads.        *)
(*                                                                         *)
(* The first, second and fifth take the universe lock; setImplementation   *)
(* is one atomic swap outside of it; lookups are lock free and fill a      *)
(* cache per class.  The method lists, the caches, the lock and class      *)
(* setup belong to the runtime and are modelled from their use here.       *)
(***************************************************************************)
EXTENDS Naturals, Sequences, FiniteSets, FiniteSetsExt

CONSTANTS
  Thread,       (* the threads that call the API                           *)
  Class,        (* classes; a metaclass is a class like any other here     *)
  Sel,          (* selectors                                               *)
  Imp,          (* implementations; every installation brings a fresh one  *)
  Lineage,      (* for each class: itself, its superclass, ... to the root *)
  Defined,      (* the methods the compiled classes come with              *)
  Registered,   (* the selectors the compiled code has registered          *)
  Calls,        (* the entry points this client uses                       *)
  NoThread,     (* the lock is free                                        *)
  NoImp,        (* the null implementation                                 *)
  Forward,      (* the forward handler's implementation                    *)
  NotCached,    (* an empty cache entry                                    *)
  NoFrame       (* a thread outside of the API has no call frame           *)

Method == Class \X Sel

EntryPoint ==
  {"addMethod", "replaceMethod", "setImplementation", "exchange", "lookup"}

ASSUME LineageAssumption ==
  /\ Lineage \in [Class -> Seq(Class)]
  /\ \A c \in Class : Len(Lineage[c]) > 0 /\ Lineage[c][1] = c

ASSUME DefinedAssumption ==
  /\ Defined \in [Method -> Imp \cup {NoImp}]
  /\ \A m, n \in Method : Defined[m] = Defined[n] => m = n \/ Defined[m] = NoImp
  /\ Registered \subseteq Sel
  /\ \A m \in Method : Defined[m] # NoImp => m[2] \in Registered

ASSUME CallsAssumption == Calls \subseteq EntryPoint

ASSUME SentinelAssumption ==
  /\ NoThread \notin Thread
  /\ NoImp \notin Imp /\ Forward \notin Imp /\ NotCached \notin Imp
  /\ NoImp # Forward /\ NoImp # NotCached /\ Forward # NotCached

VARIABLES
  imp,         (* the implementation field of each method                  *)
  nMethods,    (* how many entries for the selector the class's lists hold *)
  cache,       (* per class: selector to cached implementation             *)
  ready,       (* classes whose +initialize has run                        *)
  known,       (* selectors with a registered descriptor                   *)
  lock,        (* the owner of the universe lock                           *)
  pc,          (* where each thread is                                     *)
  frame,       (* arguments and locals of each thread's call               *)
  used,        (* history: implementations calls have brought so far       *)
  handedBack,  (* history: implementations no method has and a caller got  *)
  dirty        (* history: methods rewritten in place since all caches     *)
               (* were last invalidated                                    *)

dispatch == <<imp, nMethods>>
history  == <<used, handedBack>>
vars == <<imp, nMethods, cache, ready, known, lock, pc, frame,
          used, handedBack, dirty>>

-----------------------------------------------------------------------------
(* What the runtime finds.                                                 *)

(* The positions in c's lineage of the classes that implement s.           *)
Implementors(c, s) ==
  {i \in DOMAIN Lineage[c] : imp[<<Lineage[c][i], s>>] # NoImp}

(* class_getInstanceMethod: the method an instance of c would run for s,   *)
(* which the nearest class in the lineage defines.                         *)
InstanceMethod(c, s) == <<Lineage[c][Min(Implementors(c, s))], s>>

(* What an uncached lookup answers: the forward handler if nobody does.    *)
Search(c, s) ==
  IF Implementors(c, s) = {} THEN Forward ELSE imp[InstanceMethod(c, s)]

(* Faulty: an addition invalidates the cache of its own class only.        *)
BelowItself(k) == {k}

(* The cache entries a change to class k can make wrong: its subclasses'.  *)
Below(k) == {c \in Class : \E i \in DOMAIN Lineage[c] : Lineage[c][i] = k}

-----------------------------------------------------------------------------
(* A frame records op and the methods m and n it is about; imp is the      *)
(* implementation brought (or, in an exchange, n's) and res the one found  *)
(* in m, which is what class_replaceMethod returns; class_addMethod returns *)
(* YES iff res is null.                                                    *)
Call(op, m, n, i, r) == [op |-> op, m |-> m, n |-> n, imp |-> i, res |-> r]

Goto(t, label) == pc' = [pc EXCEPT ![t] = label]

Return(t) == Goto(t, "idle") /\ frame' = [frame EXCEPT ![t] = NoFrame]

Init ==
  /\ imp = Defined
  /\ nMethods = [m \in Method |-> IF Defined[m] = NoImp THEN 0 ELSE 1]
  /\ cache = [m \in Method |-> NotCached]
  /\ ready = {}
  /\ known = Registered
  /\ lock = NoThread
  /\ pc = [t \in Thread |-> "idle"]
  /\ frame = [t \in Thread |-> NoFrame]
  /\ used = {Defined[m] : m \in Method} \ {NoImp}
  /\ handedBack = {}
  /\ dirty = {}

(* sel_registerName gives a selector its descriptor (see Selectors).       *)
RegisterSelector(s) ==
  /\ s \notin known
  /\ known' = known \cup {s}
  /\ UNCHANGED <<dispatch, history, cache, ready, lock, pc, frame, dirty>>

(* class_addMethod and class_replaceMethod look the descriptor up before   *)
(* they take the lock.                                                     *)
BeginReplace(t, op, m, i) ==
  /\ op \in Calls \cap {"addMethod", "replaceMethod"}
  /\ pc[t] = "idle"
  /\ i \notin used
  /\ m[2] \in known
  /\ used' = used \cup {i}
  /\ frame' = [frame EXCEPT ![t] = Call(op, m, m, i, NoImp)]
  /\ Goto(t, "lock")
  /\ UNCHANGED <<dispatch, handedBack, cache, ready, known, lock, dirty>>

(* A selector without a descriptor: a message, and the answer 0.           *)
UnknownSelector(t, op, m, i) ==
  /\ op \in Calls \cap {"addMethod", "replaceMethod"}
  /\ pc[t] = "idle"
  /\ i \notin used
  /\ m[2] \notin known
  /\ used' = used \cup {i}
  /\ handedBack' = handedBack \cup {i}
  /\ UNCHANGED <<dispatch, cache, ready, known, lock, pc, frame, dirty>>

(* Faulty: the lock is taken from whoever has it.                          *)
AcquireLockAlways(t) ==
  /\ pc[t] = "lock"
  /\ lock' = t
  /\ Goto(t, IF frame[t].op = "exchange" THEN "exchangeRead"
                                         ELSE "lookupMethod")
  /\ UNCHANGED <<dispatch, history, cache, ready, known, frame, dirty>>

AcquireLock(t) ==
  /\ pc[t] = "lock"
  /\ lock = NoThread
  /\ lock' = t
  /\ Goto(t, IF frame[t].op = "exchange" THEN "exchangeRead"
                                         ELSE "lookupMethod")
  /\ UNCHANGED <<dispatch, history, cache, ready, known, frame, dirty>>

(* Faulty: class_addMethod returns from within the critical section.       *)
LookupMethodFoundReturns(t) ==
  /\ pc[t] = "lookupMethod"
  /\ nMethods[frame[t].m] > 0
  /\ \/ /\ frame[t].op = "replaceMethod"
        /\ frame' = [frame EXCEPT ![t].res = imp[frame[t].m]]
        /\ Goto(t, "setFound")
     \/ frame[t].op = "addMethod" /\ Return(t)
  /\ UNCHANGED <<dispatch, history, cache, ready, known, lock, dirty>>

(* The class's own lists are searched, the inherited ones are not.         *)
LookupMethodFound(t) ==
  /\ pc[t] = "lookupMethod"
  /\ nMethods[frame[t].m] > 0
  /\ frame' = [frame EXCEPT ![t].res = imp[frame[t].m]]
  /\ Goto(t, IF frame[t].op = "replaceMethod" THEN "setFound" ELSE "unlock")
  /\ UNCHANGED <<dispatch, history, cache, ready, known, lock, dirty>>

LookupMethodAbsent(t) ==
  /\ pc[t] = "lookupMethod"
  /\ nMethods[frame[t].m] = 0
  /\ Goto(t, "addList")
  /\ UNCHANGED <<dispatch, history, cache, ready, known, lock, frame, dirty>>

(* The found method is rewritten in place; no cache is invalidated.        *)
SetFound(t) ==
  /\ pc[t] = "setFound"
  /\ imp' = [imp EXCEPT ![frame[t].m] = frame[t].imp]
  /\ dirty' = dirty \cup {frame[t].m}
  /\ Goto(t, "unlock")
  /\ UNCHANGED <<nMethods, history, cache, ready, known, lock, frame>>

(* A method list with one method is added to the class; the runtime        *)
(* invalidates the caches of the class and of its subclasses.              *)
AddList(t) ==
  LET m == frame[t].m IN
  /\ pc[t] = "addList"
  /\ imp' = [imp EXCEPT ![m] = frame[t].imp]
  /\ nMethods' = [nMethods EXCEPT ![m] = @ + 1]
  /\ cache' = [x \in Method |-> IF x[1] \in Below(m[1]) THEN NotCached
                                                        ELSE cache[x]]
  /\ Goto(t, "unlock")
  /\ UNCHANGED <<history, ready, known, lock, frame, dirty>>

(* What a returning call hands to its caller: the displaced implementation, *)
(* or the one class_addMethod refused.                                     *)
GivenBack(f) ==
  CASE f.op = "replaceMethod" -> {f.res} \ {NoImp}
    [] f.op = "addMethod" /\ f.res # NoImp -> {f.imp}
    [] OTHER -> {}

Unlock(t) ==
  /\ pc[t] = "unlock"
  /\ lock' = NoThread
  /\ handedBack' = handedBack \cup GivenBack(frame[t])
  /\ Return(t)
  /\ UNCHANGED <<dispatch, used, cache, ready, known, dirty>>

(* method_setImplementation: one atomic swap, no lock, no invalidation.    *)
SetImplementation(t, m, i) ==
  /\ "setImplementation" \in Calls
  /\ pc[t] = "idle"
  /\ i \notin used
  /\ nMethods[m] > 0
  /\ imp' = [imp EXCEPT ![m] = i]
  /\ used' = used \cup {i}
  /\ handedBack' = handedBack \cup {imp[m]}
  /\ dirty' = dirty \cup {m}
  /\ UNCHANGED <<nMethods, cache, ready, known, lock, pc, frame>>

(* method_exchangeImplementations, under the lock: read both, write both,  *)
(* invalidate every cache.  (The two reads are one step: nothing this      *)
(* thread does depends on what happens between them.)                      *)
BeginExchange(t, m, n) ==
  /\ "exchange" \in Calls
  /\ pc[t] = "idle"
  /\ nMethods[m] > 0 /\ nMethods[n] > 0
  /\ frame' = [frame EXCEPT ![t] = Call("exchange", m, n, NoImp, NoImp)]
  /\ Goto(t, "lock")
  /\ UNCHANGED <<dispatch, history, cache, ready, known, lock, dirty>>

ExchangeRead(t) ==
  /\ pc[t] = "exchangeRead"
  /\ frame' = [frame EXCEPT ![t].imp = imp[frame[t].n],
                            ![t].res = imp[frame[t].m]]
  /\ Goto(t, "exchangeFirst")
  /\ UNCHANGED <<dispatch, history, cache, ready, known, lock, dirty>>

ExchangeFirst(t) ==
  /\ pc[t] = "exchangeFirst"
  /\ imp' = [imp EXCEPT ![frame[t].m] = frame[t].imp]
  /\ dirty' = dirty \cup {frame[t].m}
  /\ Goto(t, "exchangeSecond")
  /\ UNCHANGED <<nMethods, history, cache, ready, known, lock, frame>>

(* Faulty: a swap that does not keep the first implementation.             *)
ExchangeSecondReread(t) ==
  /\ pc[t] = "exchangeSecond"
  /\ imp' = [imp EXCEPT ![frame[t].n] = imp[frame[t].m]]
  /\ dirty' = dirty \cup {frame[t].n}
  /\ Goto(t, "invalidate")
  /\ UNCHANGED <<nMethods, history, cache, ready, known, lock, frame>>

ExchangeSecond(t) ==
  /\ pc[t] = "exchangeSecond"
  /\ imp' = [imp EXCEPT ![frame[t].n] = frame[t].res]
  /\ dirty' = dirty \cup {frame[t].n}
  /\ Goto(t, "invalidate")
  /\ UNCHANGED <<nMethods, history, cache, ready, known, lock, frame>>

InvalidateCaches(t) ==
  /\ pc[t] = "invalidate"
  /\ cache' = [m \in Method |-> NotCached]
  /\ dirty' = {}
  /\ Goto(t, "unlock")
  /\ UNCHANGED <<dispatch, history, ready, known, lock, frame>>

(* class_getMethodImplementation: a class that is not initialized yet is   *)
(* set up (its superclasses with it), then the caching lookup answers.     *)
GetMethodImplementation(t, m) ==
  /\ "lookup" \in Calls
  /\ pc[t] = "idle"
  /\ ready' = ready \cup {Lineage[m[1]][i] : i \in DOMAIN Lineage[m[1]]}
  /\ frame' = [frame EXCEPT ![t] = Call("lookup", m, m, NoImp, NoImp)]
  /\ Goto(t, "lookup")
  /\ UNCHANGED <<dispatch, history, cache, known, lock, dirty>>

Answer(m) == IF cache[m] = NotCached THEN Search(m[1], m[2]) ELSE cache[m]

Lookup(t) ==
  /\ pc[t] = "lookup"
  /\ cache' = [cache EXCEPT ![frame[t].m] = Answer(frame[t].m)]
  /\ Return(t)
  /\ UNCHANGED <<dispatch, history, ready, known, lock, dirty>>

-----------------------------------------------------------------------------
(* A thread inside a call, by what it does next.                           *)
Critical(t) ==
  \/ LookupMethodFound(t) \/ LookupMethodAbsent(t)
  \/ SetFound(t) \/ AddList(t)
  \/ ExchangeRead(t) \/ ExchangeFirst(t) \/ ExchangeSecond(t)
  \/ InvalidateCaches(t) \/ Unlock(t)

Begin(t) ==
  \/ \E op \in Calls, m \in Method, i \in Imp :
       BeginReplace(t, op, m, i) \/ UnknownSelector(t, op, m, i)
  \/ \E m \in Method, i \in Imp : SetImplementation(t, m, i)
  \/ \E m, n \in Method : BeginExchange(t, m, n)
  \/ \E m \in Method : GetMethodImplementation(t, m)

Next ==
  \/ \E s \in Sel : RegisterSelector(s)
  \/ \E t \in Thread : Begin(t) \/ AcquireLock(t) \/ Critical(t) \/ Lookup(t)

Spec == Init /\ [][Next]_vars

(* A thread that is inside a call and can run is run eventually; no call   *)
(* need be begun, and which waiter gets a free lock is up to the mutex.    *)
FairSpec ==
  /\ Spec
  /\ \A t \in Thread : WF_vars(Critical(t)) /\ WF_vars(Lookup(t))

-----------------------------------------------------------------------------
(* Properties.                                                             *)

Label == {"idle", "lock", "lookupMethod", "setFound", "addList",
          "exchangeRead", "exchangeFirst", "exchangeSecond", "invalidate",
          "unlock", "lookup"}

Frame == [op : EntryPoint, m : Method, n : Method,
          imp : Imp \cup {NoImp}, res : Imp \cup {NoImp}]

(* The state has its types: an implementation field never holds the        *)
(* forward handler, a cache never a null implementation.                   *)
TypeOK ==
  /\ imp \in [Method -> Imp \cup {NoImp}]
  /\ nMethods \in [Method -> Nat]
  /\ cache \in [Method -> Imp \cup {Forward, NotCached}]
  /\ ready \subseteq Class
  /\ known \subseteq Sel
  /\ lock \in Thread \cup {NoThread}
  /\ pc \in [Thread -> Label]
  /\ frame \in [Thread -> Frame \cup {NoFrame}]
  /\ used \subseteq Imp
  /\ handedBack \subseteq Imp
  /\ dirty \subseteq Method

(* _class_replaceMethod looks for the method and adds a list in one        *)
(* critical section, so however calls interleave a class never has two     *)
(* methods for one selector.                                               *)
OneMethod == \A m \in Method : nMethods[m] <= 1

(* A cache entry disagrees with an uncached lookup only while the method   *)
(* the lookup finds has been rewritten in place since the last call that   *)
(* invalidated every cache: class_addMethod and a finished exchange never  *)
(* leave a stale entry behind, in the class or in its subclasses.          *)
CoherentUnlessRewritten ==
  \A c \in Class, s \in Sel :
    \/ cache[<<c, s>>] \in {NotCached, Search(c, s)}
    \/ /\ Implementors(c, s) # {}
       /\ InstanceMethod(c, s) \in dirty

(* Implementations of calls that wait for the lock.                        *)
Waiting == {frame[t].imp : t \in {u \in Thread : pc[u] = "lock"}} \ {NoImp}

Installed == {imp[m] : m \in Method} \ {NoImp}

(* Without the unlocked method_setImplementation, whenever the lock is     *)
(* free every implementation that was ever brought is in exactly one       *)
(* place: it is a method's, or it was handed back to the caller that       *)
(* displaced it, or its call is still waiting.  Replacing and exchanging   *)
(* never lose an implementation a caller would have to chain to.           *)
Conservation ==
  ("setImplementation" \notin Calls /\ lock = NoThread) =>
    /\ used = Installed \cup handedBack \cup Waiting
    /\ Installed \cap handedBack = {}
    /\ Waiting \cap (Installed \cup handedBack) = {}
    /\ \A m, n \in Method : imp[m] = imp[n] => m = n \/ imp[m] = NoImp

(* The implementations as the lock's owner guarantees them: an exchange    *)
(* that has written one of its methods has not happened yet.               *)
Table ==
  [m \in Method |->
     IF lock # NoThread /\ pc[lock] = "exchangeSecond" /\ frame[lock].m = m
     THEN frame[lock].res
     ELSE imp[m]]

(* Without the unlocked method_setImplementation, the calls that take the  *)
(* lock are atomic for each other.                                         *)
Atomic == INSTANCE AtomicDispatch WITH table <- Table
AtomicForLocked == Atomic!Spec

(* Every critical section ends.                                            *)
LockReleased == lock # NoThread ~> lock = NoThread

(* Without the unlocked method_setImplementation, what class_replaceMethod *)
(* returns is the implementation its write displaces, although it read it  *)
(* a step before.                                                          *)
ReplaceReturnsOld ==
  [][\A t \in Thread :
       ("setImplementation" \notin Calls /\ SetFound(t))
         => frame[t].res = imp[frame[t].m]]_vars
=============================================================================
