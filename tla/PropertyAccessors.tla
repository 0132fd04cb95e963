-------------------------- MODULE PropertyAccessors --------------------------
(***************************************************************************)
(* The setters and the getter behind @property, in src/src/property.m:     *)
(* each picks a strategy and hands it to the runtime, which takes the new  *)
(* value (retains or copies it), stores it and gives up the old one.       *)
(*                                                                         *)
(* Two threads may set one ivar.  What the runtime does with a strategy is *)
(* modelled from the strategies' names and their use; reference counts     *)
(* count the references of properties only.                                *)
(***************************************************************************)
EXTENDS Naturals, FiniteSets, FiniteSetsExt

CONSTANTS
  Thread,       (* the threads that use the accessors                      *)
  Ivar,         (* an ivar of an object: self and offset                   *)
  Value,        (* the objects clients pass                                *)
  Copy,         (* addresses of copies                                     *)
  Calls,        (* the setters this client uses                            *)
  Nil,          (* no object                                               *)
  NoFrame       (* a thread outside of a setter has no call frame          *)

Setter ==
  {"objc_setProperty", "objc_setProperty_nonatomic",
   "objc_setProperty_nonatomic_copy", "objc_setProperty_atomic",
   "objc_setProperty_atomic_copy"}

ASSUME CallsAssumption == Calls \subseteq Setter

ASSUME SentinelAssumption ==
  /\ Value \cap Copy = {}
  /\ Nil \notin Value \cup Copy

ASSUME FiniteAssumption == IsFiniteSet(Thread) /\ IsFiniteSet(Ivar)

VARIABLES
  ivar,         (* the object each ivar refers to                          *)
  retained,     (* the references properties have to each object           *)
  origin,       (* per copy: what it is a copy of, and which kind          *)
  pc,           (* where each thread is                                    *)
  frame         (* arguments and locals of each thread's call              *)

vars == <<ivar, retained, origin, pc, frame>>

-----------------------------------------------------------------------------
(* The strategies.                                                         *)

Plain       == "autorelease"
Copying     == "copy"
MutableCopy == "mutable_copy"

(* The switch of objc_setProperty: its cases assign one after the other,   *)
(* beginning with the one that is jumped to.                               *)
Switch(shouldCopy) ==
  LET assigned == <<Plain, Copying, MutableCopy>>
      entry == CASE shouldCopy = 0 -> 1 [] shouldCopy = 2 -> 3 [] OTHER -> 2
  IN  assigned[Max(entry .. 3)]

(* Faulty: objc_setProperty_atomic_copy forgets the atomic bit.            *)
StrategyNotAtomic(fn, atomic, shouldCopy) ==
  CASE fn = "objc_setProperty" ->
         [take |-> Switch(shouldCopy), atomic |-> atomic]
    [] fn = "objc_setProperty_nonatomic" -> [take |-> Plain, atomic |-> FALSE]
    [] fn = "objc_setProperty_atomic" -> [take |-> Plain, atomic |-> TRUE]
    [] OTHER -> [take |-> Copying, atomic |-> FALSE]

Strategy(fn, atomic, shouldCopy) ==
  CASE fn = "objc_setProperty" ->
         [take |-> Switch(shouldCopy), atomic |-> atomic]
    [] fn = "objc_setProperty_nonatomic" -> [take |-> Plain, atomic |-> FALSE]
    [] fn = "objc_setProperty_nonatomic_copy" ->
         [take |-> Copying, atomic |-> FALSE]
    [] fn = "objc_setProperty_atomic" -> [take |-> Plain, atomic |-> TRUE]
    [] fn = "objc_setProperty_atomic_copy" ->
         [take |-> Copying, atomic |-> TRUE]

-----------------------------------------------------------------------------
Atomic(fn, atomic) ==
  \/ fn = "objc_setProperty" /\ atomic
  \/ fn \in {"objc_setProperty_atomic", "objc_setProperty_atomic_copy"}

Goto(t, label) == pc' = [pc EXCEPT ![t] = label]

Setting(i) == {t \in Thread : pc[t] # "idle" /\ frame[t].ivar = i}

NoOrigin == <<Nil, "none">>

Init ==
  /\ ivar = [i \in Ivar |-> Nil]
  /\ retained = [v \in Value \cup Copy |-> 0]
  /\ origin = [c \in Copy |-> NoOrigin]
  /\ pc = [t \in Thread |-> "idle"]
  /\ frame = [t \in Thread |-> NoFrame]

(* A setter is called.  A client that uses a nonatomic setter sees to it   *)
(* that nobody else sets the ivar meanwhile.  Only objc_setProperty is     *)
(* told whether to be atomic and whether to copy.                          *)
Set(t, fn, i, v, atomic, shouldCopy) ==
  /\ pc[t] = "idle"
  /\ fn \in Calls
  /\ fn # "objc_setProperty" => (~atomic /\ shouldCopy = 0)
  /\ \A u \in Setting(i) :
       Atomic(fn, atomic) /\ Atomic(frame[u].fn, frame[u].atomic)
  /\ frame' = [frame EXCEPT ![t] =
       [fn |-> fn, ivar |-> i, value |-> v, atomic |-> atomic,
        shouldCopy |-> shouldCopy,
        strategy |-> Strategy(fn, atomic, shouldCopy),
        taken |-> Nil, old |-> Nil]]
  /\ Goto(t, "take")
  /\ UNCHANGED <<ivar, retained, origin>>

(* mulle_objc_object_set_property_value: the new value is retained, or a   *)
(* copy is made of it; nil stays nil.                                      *)
Take(t, v) ==
  LET f == frame[t] IN
  /\ pc[t] = "take"
  /\ \/ v = f.value /\ (f.value = Nil \/ f.strategy.take = Plain)
        /\ UNCHANGED origin
     \/ /\ f.value # Nil /\ f.strategy.take # Plain
        /\ v \in Copy /\ retained[v] = 0
        /\ origin' = [origin EXCEPT ![v] = <<f.value, f.strategy.take>>]
  /\ retained' = [w \in Value \cup Copy |->
                    IF w = v THEN retained[w] + 1 ELSE retained[w]]
  /\ frame' = [frame EXCEPT ![t].taken = v]
  /\ Goto(t, IF f.strategy.atomic THEN "swap" ELSE "read")
  /\ UNCHANGED ivar

(* The atomic exchange, or a read and a write.                             *)
Swap(t) ==
  /\ pc[t] = "swap"
  /\ frame' = [frame EXCEPT ![t].old = ivar[frame[t].ivar]]
  /\ ivar' = [ivar EXCEPT ![frame[t].ivar] = frame[t].taken]
  /\ Goto(t, "giveUp")
  /\ UNCHANGED <<retained, origin>>

ReadOld(t) ==
  /\ pc[t] = "read"
  /\ frame' = [frame EXCEPT ![t].old = ivar[frame[t].ivar]]
  /\ Goto(t, "write")
  /\ UNCHANGED <<ivar, retained, origin>>

WriteNew(t) ==
  /\ pc[t] = "write"
  /\ ivar' = [ivar EXCEPT ![frame[t].ivar] = frame[t].taken]
  /\ Goto(t, "giveUp")
  /\ UNCHANGED <<retained, origin, frame>>

(* The old value is released, which ends a copy nobody else has.           *)
GiveUp(t) ==
  LET old == frame[t].old IN
  /\ pc[t] = "giveUp"
  /\ retained' = [w \in Value \cup Copy |->
                    IF w = old THEN retained[w] - 1 ELSE retained[w]]
  /\ origin' = [c \in Copy |-> IF c = old /\ retained[c] = 1 THEN NoOrigin
                                                           ELSE origin[c]]
  /\ frame' = [frame EXCEPT ![t] = NoFrame]
  /\ Goto(t, "idle")
  /\ UNCHANGED ivar

Next ==
  \E t \in Thread :
    \/ \E fn \in Setter, i \in Ivar, v \in Value \cup {Nil},
          atomic \in BOOLEAN, shouldCopy \in 0 .. 2 :
         Set(t, fn, i, v, atomic, shouldCopy)
    \/ \E v \in Value \cup Copy \cup {Nil} : Take(t, v)
    \/ Swap(t) \/ ReadOld(t) \/ WriteNew(t) \/ GiveUp(t)

Spec == Init /\ [][Next]_vars

-----------------------------------------------------------------------------
(* Properties.                                                             *)

Label == {"idle", "take", "swap", "read", "write", "giveUp"}

Object == Value \cup Copy \cup {Nil}

Frame == [fn : Setter, ivar : Ivar, value : Value \cup {Nil},
          atomic : BOOLEAN, shouldCopy : 0 .. 2,
          strategy : [take : {Plain, Copying, MutableCopy}, atomic : BOOLEAN],
          taken : Object, old : Object]

(* The state has its types: nothing is released more often than it was     *)
(* retained, and a copy is known as one as long as it is retained.         *)
TypeOK ==
  /\ ivar \in [Ivar -> Object]
  /\ retained \in [Value \cup Copy -> Nat]
  /\ origin \in [Copy -> (Value \cup {Nil}) \X {"none", Copying, MutableCopy}]
  /\ \A c \in Copy : retained[c] = 0 <=> origin[c] = NoOrigin
  /\ pc \in [Thread -> Label]
  /\ frame \in [Thread -> Frame \cup {NoFrame}]

(* Threads that have taken v and not stored it yet, or have displaced it   *)
(* and not given it up yet.                                                *)
Holding(v) ==
  {t \in Thread : pc[t] \in {"swap", "read", "write"} /\ frame[t].taken = v}
    \cup {t \in Thread : pc[t] = "giveUp" /\ frame[t].old = v}

(* Every reference is accounted for, however atomic setters interleave: an *)
(* object is retained once for each ivar that refers to it and for each    *)
(* setter that is about to store it or to give it up.  So no value leaks   *)
(* when two threads set one property, and none is released twice.          *)
ReferencesAccounted ==
  \A v \in Value \cup Copy :
    retained[v] =
      Cardinality({i \in Ivar : ivar[i] = v}) + Cardinality(Holding(v))

Taken(t) == pc[t] \in {"swap", "read", "write"}

IsCopy(t, kind) ==
  /\ frame[t].taken \in Copy
  /\ origin[frame[t].taken] = <<frame[t].value, kind>>

(* What a setter is about to put into the ivar is what its name says: the  *)
(* plain ones the object they were passed, the copying ones an immutable   *)
(* copy of it, which stays theirs whatever other threads store and give up *)
(* until then.  objc_setProperty puts a mutable copy there, whatever it is *)
(* asked for.                                                              *)
StoresByName ==
  \A t \in Thread : Taken(t) /\ frame[t].value # Nil =>
    CASE frame[t].fn = "objc_setProperty" -> IsCopy(t, MutableCopy)
      [] frame[t].fn \in {"objc_setProperty_nonatomic", "objc_setProperty_atomic"} ->
           frame[t].taken = frame[t].value
      [] OTHER -> IsCopy(t, Copying)

(* objc_setProperty stores the object itself when no copy is asked for, as *)
(* test/04_property/accessors2.m expects: "o->ivar == value".              *)
StoresAsAsked ==
  \A t \in Thread :
    (Taken(t) /\ frame[t].fn = "objc_setProperty" /\ frame[t].shouldCopy = 0)
      => frame[t].taken = frame[t].value
=============================================================================
