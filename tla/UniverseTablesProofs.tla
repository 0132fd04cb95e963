------------------------- MODULE UniverseTablesProofs -------------------------
(***************************************************************************)
(* Theorems about the tables of the universe and their listings, for any   *)
(* number of threads, classes, protocols and slots.                        *)
(***************************************************************************)
EXTENDS UniverseTables, FiniteSetTheorems, TLAPS

(* The tables: a struct is registered under its own id.                    *)
TablesInv ==
  /\ registered \subseteq allocated /\ allocated \subseteq Class
  /\ protocolid \in [Struct -> Id \cup {None}]
  /\ protocols \in [Id -> Struct \cup {None}]
  /\ \A i \in Id : protocols[i] # None => protocolid[protocols[i]] = i
  /\ running \subseteq Thread /\ Main \in running

(* What each step of a call knows, about classes cs and protocols ps that  *)
(* only grow while anything but the main thread's disposing is under way.  *)
CallOK(r, cs, ps) ==
  /\ r.at \notin {"classes", "buffer", "protocols"} => r.list = {}
  /\ r.at \in {"countClasses", "fillClasses", "fillBuffer"} => r.found \subseteq cs
  /\ r.at \in {"fillBuffer", "countProtocols"} => r.slots \in 0 .. MaxSlots
  /\ r.at = "fillClasses" =>
       /\ r.slots = r.count + 1
       /\ r.count <= Cardinality(r.found)
  /\ r.at \in {"classes", "buffer"} => r.list \subseteq cs
  /\ r.at = "classes" =>
       /\ r.count <= Cardinality(r.list)
       /\ r.found \subseteq r.list \/ Cardinality(cs) > r.count + 1
  /\ r.at = "fillProtocols" =>
       /\ r.found \subseteq ps
       /\ r.slots = Cardinality(r.found)
       /\ r.count = r.learned => r.slots = r.count
  /\ r.at = "protocols" =>
       /\ r.list \subseteq ps
       /\ r.count = r.learned => Cardinality(r.list) = r.count
  /\ Cardinality(r.list) <= r.slots
  /\ r.learned # None => r.learned <= Cardinality(ps)

CallInv ==
  \A t \in Thread :
    /\ call[t] \in Calls
    /\ CallOK(call[t], registered, Registered)
    /\ t \notin running => call[t].at = "idle"

IInv == TablesInv /\ CallInv /\ call \in [Thread -> Calls]

-----------------------------------------------------------------------------
(* A subset of the classes, or of the structs, is finite and not larger    *)
(* than a set it lies in.                                                  *)
LEMMA Sizes ==
  ASSUME NEW S \in (SUBSET Class) \cup (SUBSET Struct), NEW T \in SUBSET S
  PROVE  /\ IsFiniteSet(S) /\ IsFiniteSet(T)
         /\ Cardinality(S) \in Nat /\ Cardinality(T) \in Nat
         /\ Cardinality(T) <= Cardinality(S)
         /\ Cardinality(T) = Cardinality(S) => T = S
<1>1. IsFiniteSet(S)
  <2>1. CASE S \in SUBSET Class
    BY <2>1, FiniteAssumption, FS_Subset
  <2>2. CASE S \in SUBSET Struct
    BY <2>2, FiniteAssumption, FS_Subset
  <2> QED
    BY <2>1, <2>2
<1> QED
  BY <1>1, FS_Subset, FS_CardinalityType

LEMMA ClassCount ==
  ASSUME NEW S \in SUBSET Class
  PROVE  Cardinality(S) \in 0 .. Cardinality(Class)
<1>1. Class \in (SUBSET Class) \cup (SUBSET Struct)
  OBVIOUS
<1> QED
  BY <1>1, Sizes

LEMMA StructCount ==
  ASSUME NEW S \in SUBSET Struct
  PROVE  Cardinality(S) \in 0 .. Cardinality(Struct)
<1>1. Struct \in (SUBSET Class) \cup (SUBSET Struct)
  OBVIOUS
<1> QED
  BY <1>1, Sizes

(* A walk that meets s and stops when the slots are full has written       *)
(* all of s, or as much of it as there are slots.                          *)
LEMMA WrittenSize ==
  ASSUME NEW s \in (SUBSET Class) \cup (SUBSET Struct), NEW slots \in Nat,
         NEW list \in Written(s, slots)
  PROVE  /\ list \subseteq s
         /\ Cardinality(list) \in Nat /\ Cardinality(list) <= slots
         /\ Cardinality(s) <= slots => list = s
         /\ slots <= Cardinality(s) => Cardinality(list) = slots
<1>1. list \in SUBSET s
      /\ Cardinality(list) = IF Cardinality(s) < slots THEN Cardinality(s)
                                                       ELSE slots
  BY DEF Written
<1>2. Cardinality(s) \in Nat /\ Cardinality(list) \in Nat
      /\ (Cardinality(list) = Cardinality(s) => list = s)
  BY <1>1, Sizes
<1> QED
  BY <1>1, <1>2

LEMMA RegisteredStructs == TablesInv => Registered \subseteq Struct
  BY DEF TablesInv, Registered

(* The empty call is in order whatever the tables hold.                    *)
LEMMA IdleOK ==
  /\ Idle \in Calls
  /\ \A cs, ps : CallOK(Idle, cs, ps)
<1>1. Cardinality({}) = 0
  BY FS_EmptySet
<1>2. 0 \in 0 .. MaxSlots
  BY SlotsAssumption
<1> QED
  BY <1>1, <1>2 DEF Idle, Calls, Label, CallOK

(* What a call knows is not spoiled by registrations.                      *)
LEMMA CallOKGrows ==
  ASSUME NEW r \in Calls, NEW ds \in SUBSET Class, NEW cs \in SUBSET ds,
         NEW qs \in SUBSET Struct, NEW ps \in SUBSET qs, CallOK(r, cs, ps)
  PROVE  CallOK(r, ds, qs)
<1>1. Cardinality(cs) \in Nat /\ Cardinality(ds) \in Nat
      /\ Cardinality(cs) <= Cardinality(ds)
  BY Sizes
<1>2. Cardinality(ps) \in Nat /\ Cardinality(qs) \in Nat
      /\ Cardinality(ps) <= Cardinality(qs)
  BY Sizes
<1>3. r.count \in Nat /\ (r.learned # None => r.learned \in Nat)
  BY SlotsAssumption DEF Calls
<1> QED
  BY <1>1, <1>2, <1>3 DEF CallOK

-----------------------------------------------------------------------------
(* The steps, by what they change.                                         *)

LEMMA InitIInv == Init => IInv
<1> SUFFICES ASSUME Init PROVE IInv
  OBVIOUS
<1>1. TablesInv
  BY MainAssumption, CompiledAssumption DEF Init, TablesInv
<1>2. Idle.at = "idle"
  BY DEF Idle
<1>3. \A t \in Thread : call[t] = Idle
  BY DEF Init
<1>4. call \in [Thread -> Calls]
  BY IdleOK DEF Init
<1> QED
  BY <1>1, <1>2, <1>3, <1>4, IdleOK DEF IInv, CallInv

(* The tables grow, and no call moves.                                     *)
LEMMA GrowIInv ==
  ASSUME IInv, TablesInv', registered \subseteq registered',
         Registered \subseteq Registered', UNCHANGED <<running, call>>
  PROVE  IInv'
<1>1. registered' \subseteq Class /\ Registered' \subseteq Struct
  BY RegisteredStructs DEF TablesInv, Registered
<1>2. ASSUME NEW t \in Thread
      PROVE  CallOK(call[t], registered', Registered')
  BY <1>1, CallOKGrows DEF IInv, CallInv
<1> QED
  BY <1>2 DEF IInv, CallInv

LEMMA TablesIInv ==
  ASSUME IInv, NEW t \in Thread,
         \/ \E c \in Class : AllocateClassPair(t, c) \/ RegisterClassPair(t, c)
         \/ \E p \in Struct : \/ \E i \in Id : AllocateProtocol(t, p, i)
                              \/ RegisterProtocol(t, p)
  PROVE  IInv'
<1>1. ASSUME NEW c \in Class, AllocateClassPair(t, c) \/ RegisterClassPair(t, c)
      PROVE  IInv'
  <2>1. TablesInv' /\ registered \subseteq registered' /\ Registered' = Registered
    BY <1>1 DEF IInv, TablesInv, AllocateClassPair, RegisterClassPair, Registered
  <2> QED
    BY <1>1, <2>1, GrowIInv DEF AllocateClassPair, RegisterClassPair
<1>2. ASSUME NEW p \in Struct, NEW i \in Id, AllocateProtocol(t, p, i)
      PROVE  IInv'
  <2>1. \A j \in Id : protocols[j] # p
    BY <1>2, NoneAssumption DEF IInv, TablesInv, AllocateProtocol
  <2>2. TablesInv' /\ registered \subseteq registered' /\ Registered' = Registered
    BY <1>2, <2>1 DEF IInv, TablesInv, AllocateProtocol, Registered
  <2> QED
    BY <1>2, <2>2, GrowIInv DEF AllocateProtocol
<1>3. ASSUME NEW p \in Struct, RegisterProtocol(t, p)
      PROVE  IInv'
  <2> DEFINE i == protocolid[p]
  <2>1. i \in Id /\ protocols' = [protocols EXCEPT
                                 ![i] = IF @ = None THEN p ELSE @]
    BY <1>3 DEF IInv, TablesInv, RegisterProtocol
  <2>2. \A j \in Id : protocols[j] # None => protocols'[j] = protocols[j]
    BY <2>1 DEF IInv, TablesInv
  <2>3. TablesInv' /\ registered \subseteq registered'
    BY <1>3, <2>1, <2>2 DEF IInv, TablesInv, RegisterProtocol
  <2>4. Registered \subseteq Registered'
    BY <2>2 DEF Registered
  <2> QED
    BY <1>3, <2>3, <2>4, GrowIInv DEF RegisterProtocol
<1> QED
  BY <1>1, <1>2, <1>3

(* Only the main thread is there, and it is idle: no call knows anything   *)
(* about classes.                                                          *)
LEMMA DisposeIInv ==
  ASSUME IInv, NEW t \in Thread, NEW c \in Class, DisposeClassPair(t, c)
  PROVE  IInv'
<1>1. \A u \in Thread : call[u].at = "idle"
  BY DEF IInv, CallInv, TablesInv, DisposeClassPair, At
<1>2. TablesInv' /\ Registered' = Registered
  BY DEF IInv, TablesInv, DisposeClassPair, Registered
<1>3. \A u \in Thread : CallOK(call[u], registered', Registered)
  BY <1>1 DEF IInv, CallInv, CallOK
<1> QED
  BY <1>1, <1>2, <1>3 DEF IInv, CallInv, DisposeClassPair

LEMMA ThreadIInv ==
  ASSUME IInv, NEW t \in Thread, StartThread(t) \/ EndThread(t)
  PROVE  IInv'
<1>1. TablesInv' /\ Registered' = Registered /\ registered' = registered
  BY DEF IInv, TablesInv, StartThread, EndThread, tables, Registered
<1>2. Idle.at = "idle"
  BY DEF Idle
<1>3. CASE StartThread(t)
  BY <1>1, <1>3 DEF IInv, CallInv, StartThread
<1>4. CASE EndThread(t)
  BY <1>1, <1>2, <1>4, IdleOK DEF IInv, CallInv, EndThread
<1> QED
  BY <1>3, <1>4

(* A running thread's call moves on, and the tables stay.                  *)
LEMMA CallIInv ==
  ASSUME IInv, NEW t \in Thread, t \in running, UNCHANGED <<tables, running>>,
         NEW r \in Calls, CallOK(r, registered, Registered),
         call' = [call EXCEPT ![t] = r]
  PROVE  IInv'
<1>1. TablesInv' /\ Registered' = Registered /\ registered' = registered
  BY DEF IInv, TablesInv, tables, Registered
<1> QED
  BY <1>1 DEF IInv, CallInv

(* What holds of the record of a call in any reachable state.              *)
LEMMA CallFacts ==
  ASSUME IInv, NEW t \in Thread
  PROVE  /\ call[t] \in Calls
         /\ CallOK(call[t], registered, Registered)
         /\ call[t].at # "idle" => t \in running
         /\ registered \in SUBSET Class /\ Registered \in SUBSET Struct
  BY RegisteredStructs DEF IInv, CallInv, TablesInv

LEMMA BeginIInv ==
  ASSUME IInv, NEW t \in Thread,
         NEW label \in {"countClasses", "fillBuffer", "countProtocols"},
         NEW n \in 0 .. MaxSlots, NEW found \in {{}, registered},
         label = "countProtocols" => found = {},
         Begin(t, label, found, n)
  PROVE  IInv'
<1> DEFINE r == [call[t] EXCEPT !.at = label, !.found = found, !.slots = n]
<1>1. call[t] \in Calls /\ CallOK(call[t], registered, Registered)
      /\ registered \in SUBSET Class /\ call[t].at = "idle" /\ t \in running
  BY CallFacts DEF Begin, At
<1>2. r \in Calls
  BY <1>1, SlotsAssumption DEF Calls, Label
<1>3. Cardinality({}) = 0 /\ n \in Nat
  BY FS_EmptySet, SlotsAssumption
<1>4. CallOK(r, registered, Registered)
  <2>1. /\ r.at = label /\ r.found = found /\ r.slots = n
        /\ r.list = call[t].list /\ r.learned = call[t].learned
    BY <1>1 DEF Calls
  <2>2. /\ call[t].list = {}
        /\ call[t].learned # None => call[t].learned <= Cardinality(Registered)
    BY <1>1 DEF CallOK
  <2> HIDE DEF r
  <2>3. r.list = {} /\ Cardinality(r.list) <= r.slots
    BY <1>3, <2>1, <2>2
  <2> QED
    BY <2>1, <2>2, <2>3 DEF CallOK
<1>5. call' = [call EXCEPT ![t] = r]
  BY <1>1 DEF Begin, IInv, Calls
<1> QED
  BY <1>1, <1>2, <1>4, <1>5, CallIInv DEF Begin

LEMMA ReadIInv ==
  ASSUME IInv, NEW t \in Thread, Read(t)
  PROVE  IInv'
<1>1. t \in running
  BY CallFacts DEF Read
<1> QED
  BY <1>1, IdleOK, CallIInv DEF Read

(* Nothing a walk over the classes has found goes away while it lasts.     *)
LEMMA ClassWalk ==
  ASSUME IInv, NEW t \in Thread,
         call[t].at \in {"countClasses", "fillClasses", "fillBuffer"},
         NEW s \in Visited(call[t].found, registered)
  PROVE  /\ s \in SUBSET Class /\ s \subseteq registered
         /\ call[t].found \subseteq s
<1>1. call[t].found \subseteq registered /\ registered \in SUBSET Class
  BY CallFacts DEF CallOK
<1> QED
  BY <1>1 DEF Visited

LEMMA CountClassesIInv ==
  ASSUME IInv, NEW t \in Thread, CountClasses(t)
  PROVE  IInv'
<1>1. PICK s \in Visited(call[t].found, registered) :
        call' = [call EXCEPT ![t].at = "fillClasses", ![t].found = registered,
                             ![t].slots = Cardinality(s) + 1,
                             ![t].count = Cardinality(s)]
  BY DEF CountClasses
<1> DEFINE r == [call[t] EXCEPT !.at = "fillClasses", !.found = registered,
                                !.slots = Cardinality(s) + 1,
                                !.count = Cardinality(s)]
<1>2. call[t] \in Calls /\ CallOK(call[t], registered, Registered)
      /\ registered \in SUBSET Class /\ t \in running
      /\ call[t].at = "countClasses"
  BY CallFacts DEF CountClasses, At
<1>3. s \in SUBSET Class /\ s \subseteq registered
  BY <1>2, ClassWalk
<1>4. Cardinality(s) \in 0 .. Cardinality(Class)
      /\ Cardinality(Class) \in Nat
      /\ Cardinality(s) <= Cardinality(registered)
      /\ Cardinality({}) = 0
  BY <1>2, <1>3, Sizes, ClassCount, FS_EmptySet
<1>5. r \in Calls
  <2>1. Cardinality(s) + 1 \in 0 .. (Cardinality(Class) + 1)
    BY <1>4
  <2>2. [call[t] EXCEPT !.at = "fillClasses", !.found = registered] \in Calls
    BY <1>2 DEF Calls, Label
  <2>3. ASSUME NEW q \in Calls, NEW n \in 0 .. (Cardinality(Class) + 1),
               NEW m \in 0 .. Cardinality(Class)
        PROVE  [q EXCEPT !.slots = n, !.count = m] \in Calls
    BY DEF Calls
  <2>4. r = [[call[t] EXCEPT !.at = "fillClasses", !.found = registered]
               EXCEPT !.slots = Cardinality(s) + 1, !.count = Cardinality(s)]
    BY <1>2 DEF Calls
  <2> QED
    BY <1>4, <2>1, <2>2, <2>3, <2>4
<1>6. CallOK(r, registered, Registered)
  <2>1. /\ r.at = "fillClasses" /\ r.list = {} /\ r.found = registered
        /\ r.slots = Cardinality(s) + 1 /\ r.count = Cardinality(s)
        /\ r.learned = call[t].learned
    BY <1>2 DEF Calls, CallOK
  <2> HIDE DEF r
  <2> QED
    BY <1>2, <1>4, <2>1 DEF CallOK
<1>7. call' = [call EXCEPT ![t] = r]
  BY <1>1, <1>2 DEF IInv, Calls
<1> QED
  BY <1>2, <1>5, <1>6, <1>7, CallIInv DEF CountClasses

(* What is answered, given what was written.                               *)
LEMMA AnswerIInv ==
  ASSUME IInv, NEW t \in Thread, t \in running,
         NEW label \in {"classes", "buffer", "protocols"},
         NEW list \in (SUBSET Class) \cup (SUBSET Struct),
         NEW count \in 0 .. MaxSlots \cup 0 .. Cardinality(Class),
         Cardinality(list) <= call[t].slots,
         CallOK([call[t] EXCEPT !.at = label, !.list = list, !.count = count],
                registered, Registered),
         Answer(t, label, list, count)
  PROVE  IInv'
<1> DEFINE r == [call[t] EXCEPT !.at = label, !.list = list, !.count = count]
<1>1. call[t] \in Calls
  BY CallFacts
<1>2. r \in Calls
  BY <1>1 DEF Calls, Label
<1>3. call' = [call EXCEPT ![t] = r]
  BY <1>1 DEF Answer, IInv, Calls
<1> QED
  BY <1>2, <1>3, CallIInv DEF Answer

LEMMA FillClassesIInv ==
  ASSUME IInv, NEW t \in Thread, FillClasses(t)
  PROVE  IInv'
<1> DEFINE f == call[t]
<1>1. PICK s \in Visited(f.found, registered) :
        \E list \in Written(s, f.slots) : Answer(t, "classes", list, f.count)
  BY DEF FillClasses
<1>2. PICK list \in Written(s, f.slots) : Answer(t, "classes", list, f.count)
  BY <1>1
<1>3. f \in Calls /\ CallOK(f, registered, Registered)
      /\ registered \in SUBSET Class /\ t \in running /\ f.at = "fillClasses"
  BY CallFacts DEF FillClasses, At
<1>4. s \in SUBSET Class /\ s \subseteq registered /\ f.found \subseteq s
  BY <1>3, ClassWalk
<1>5. f.slots \in Nat /\ f.count \in 0 .. MaxSlots \cup 0 .. Cardinality(Class)
      /\ f.count \in Nat
  <2>1. Cardinality(Class) \in Nat /\ Cardinality(Struct) \in Nat
    BY FiniteAssumption, FS_CardinalityType
  <2> QED
    BY <1>3, <2>1, SlotsAssumption DEF Calls
<1>6. /\ Cardinality(s) \in Nat /\ Cardinality(registered) \in Nat
      /\ Cardinality(f.found) \in Nat
      /\ Cardinality(s) <= Cardinality(registered)
      /\ Cardinality(f.found) <= Cardinality(s)
  BY <1>3, <1>4, Sizes
<1>7. /\ list \subseteq s /\ Cardinality(list) \in Nat
      /\ Cardinality(list) <= f.slots
      /\ Cardinality(s) <= f.slots => list = s
      /\ f.slots <= Cardinality(s) => Cardinality(list) = f.slots
  BY <1>2, <1>4, <1>5, WrittenSize
<1>8. f.slots = f.count + 1 /\ f.count <= Cardinality(f.found)
  BY <1>3 DEF CallOK
<1>9. f.count <= Cardinality(list)
  BY <1>5, <1>6, <1>7, <1>8
<1>10. f.found \subseteq list \/ Cardinality(registered) > f.count + 1
  BY <1>4, <1>5, <1>6, <1>7, <1>8
<1> DEFINE r == [f EXCEPT !.at = "classes", !.list = list, !.count = f.count]
<1>11. CallOK(r, registered, Registered)
  <2>1. /\ r.at = "classes" /\ r.list = list /\ r.found = f.found
        /\ r.slots = f.slots /\ r.count = f.count /\ r.learned = f.learned
    BY <1>3 DEF Calls
  <2> HIDE DEF r
  <2> QED
    BY <1>3, <1>4, <1>7, <1>9, <1>10, <2>1 DEF CallOK
<1> QED
  BY <1>2, <1>3, <1>4, <1>5, <1>7, <1>11, AnswerIInv

LEMMA EndGetClassListIInv ==
  ASSUME IInv, NEW t \in Thread, EndGetClassList(t)
  PROVE  IInv'
<1> DEFINE f == call[t]
<1>1. PICK s \in Visited(f.found, registered) :
        \E list \in Written(s, f.slots) : Answer(t, "buffer", list, f.slots)
  BY DEF EndGetClassList
<1>2. PICK list \in Written(s, f.slots) : Answer(t, "buffer", list, f.slots)
  BY <1>1
<1>3. f \in Calls /\ CallOK(f, registered, Registered)
      /\ registered \in SUBSET Class /\ t \in running /\ f.at = "fillBuffer"
  BY CallFacts DEF EndGetClassList, At
<1>4. s \in SUBSET Class /\ s \subseteq registered
  BY <1>3, ClassWalk
<1>5. f.slots \in 0 .. MaxSlots /\ f.slots \in Nat
  BY <1>3, SlotsAssumption DEF CallOK
<1>6. list \subseteq s /\ Cardinality(list) <= f.slots
  BY <1>2, <1>4, <1>5, WrittenSize
<1> DEFINE r == [f EXCEPT !.at = "buffer", !.list = list, !.count = f.slots]
<1>7. CallOK(r, registered, Registered)
  <2>1. /\ r.at = "buffer" /\ r.list = list
        /\ r.slots = f.slots /\ r.learned = f.learned
    BY <1>3 DEF Calls
  <2> HIDE DEF r
  <2> QED
    BY <1>3, <1>4, <1>6, <2>1 DEF CallOK
<1> QED
  BY <1>2, <1>3, <1>4, <1>5, <1>6, <1>7, AnswerIInv

LEMMA CountProtocolsIInv ==
  ASSUME IInv, NEW t \in Thread, CountProtocols(t)
  PROVE  IInv'
<1> DEFINE f == call[t]
           n == Cardinality(Registered)
           r == [f EXCEPT !.at = "fillProtocols", !.found = Registered,
                          !.count = f.slots, !.slots = n]
<1>1. f \in Calls /\ CallOK(f, registered, Registered)
      /\ Registered \in SUBSET Struct /\ t \in running
      /\ f.at = "countProtocols" /\ n <= f.slots
  BY CallFacts DEF CountProtocols, At
<1>2. n \in 0 .. Cardinality(Struct) /\ Cardinality({}) = 0 /\ n \in Nat
  BY <1>1, StructCount, FS_EmptySet
<1>3. f.slots \in 0 .. MaxSlots /\ f.slots \in Nat
  BY <1>1, SlotsAssumption DEF CallOK
<1>4. r \in Calls
  <2> HIDE DEF n
  <2> QED
    BY <1>1, <1>2, <1>3 DEF Calls, Label
<1>5. CallOK(r, registered, Registered)
  <2>1. /\ r.at = "fillProtocols" /\ r.list = {} /\ r.found = Registered
        /\ r.slots = n /\ r.count = f.slots /\ r.learned = f.learned
    BY <1>1 DEF Calls, CallOK
  <2>2. f.learned # None => f.learned <= n
    BY <1>1 DEF CallOK
  <2>3. r.count = r.learned => r.slots = r.count
    BY <1>1, <1>2, <1>3, <2>1, <2>2, NoneAssumption
  <2> HIDE DEF r
  <2> QED
    BY <1>1, <1>2, <2>1, <2>2, <2>3 DEF CallOK
<1>6. call' = [call EXCEPT ![t] = r]
  BY <1>1 DEF CountProtocols, IInv, Calls
<1> QED
  BY <1>1, <1>4, <1>5, <1>6, CallIInv DEF CountProtocols

LEMMA TooManyProtocolsIInv ==
  ASSUME IInv, NEW t \in Thread, TooManyProtocols(t)
  PROVE  IInv'
<1> DEFINE n == Cardinality(Registered)
           r == [Idle EXCEPT !.learned = n]
<1>1. Registered \in SUBSET Struct /\ t \in running
  BY CallFacts DEF TooManyProtocols, At
<1>2. n \in 0 .. Cardinality(Struct) /\ n \in Nat /\ Cardinality({}) = 0
  BY <1>1, StructCount, FS_EmptySet
<1>3. r \in Calls /\ CallOK(r, registered, Registered)
  BY <1>2, SlotsAssumption DEF Idle, Calls, Label, CallOK
<1> QED
  BY <1>1, <1>3, CallIInv DEF TooManyProtocols

LEMMA FillProtocolsIInv ==
  ASSUME IInv, NEW t \in Thread, FillProtocols(t)
  PROVE  IInv'
<1> DEFINE f == call[t]
<1>1. PICK s \in Visited(f.found, Registered) :
        \E list \in Written(s, f.slots) : Answer(t, "protocols", list, f.count)
  BY DEF FillProtocols
<1>2. PICK list \in Written(s, f.slots) : Answer(t, "protocols", list, f.count)
  BY <1>1
<1>3. f \in Calls /\ CallOK(f, registered, Registered)
      /\ Registered \in SUBSET Struct /\ t \in running
      /\ f.at = "fillProtocols"
  BY CallFacts DEF FillProtocols, At
<1>4. /\ f.found \subseteq Registered /\ f.slots = Cardinality(f.found)
      /\ f.count = f.learned => f.slots = f.count
  BY <1>3 DEF CallOK
<1>5. s \in SUBSET Struct /\ s \subseteq Registered /\ f.found \subseteq s
  BY <1>3, <1>4 DEF Visited
<1>6. f.slots \in Nat /\ f.slots <= Cardinality(s)
  BY <1>4, <1>5, Sizes
<1>7. f.count \in 0 .. MaxSlots \cup 0 .. Cardinality(Class)
  BY <1>3 DEF Calls
<1>8. list \subseteq s /\ Cardinality(list) = f.slots
  BY <1>2, <1>5, <1>6, WrittenSize
<1> DEFINE r == [f EXCEPT !.at = "protocols", !.list = list, !.count = f.count]
<1>9. CallOK(r, registered, Registered)
  <2>1. /\ r.at = "protocols" /\ r.list = list /\ r.count = f.count
        /\ r.slots = f.slots /\ r.learned = f.learned
    BY <1>3 DEF Calls
  <2> HIDE DEF r
  <2> QED
    BY <1>3, <1>4, <1>5, <1>6, <1>8, <2>1 DEF CallOK
<1>10. list \in (SUBSET Class) \cup (SUBSET Struct) /\ Cardinality(list) <= f.slots
  BY <1>5, <1>6, <1>8
<1> QED
  BY <1>2, <1>3, <1>7, <1>9, <1>10, AnswerIInv

-----------------------------------------------------------------------------
(* The inductive invariant holds in every reachable state.                 *)
THEOREM Invariance == Spec => []IInv
<1>1. IInv /\ [Next]_vars => IInv'
  <2> SUFFICES ASSUME IInv, [Next]_vars PROVE IInv'
    OBVIOUS
  <2>1. CASE UNCHANGED vars
    <3>1. TablesInv' /\ Registered' = Registered /\ registered' = registered
      BY <2>1 DEF IInv, TablesInv, vars, tables, Registered
    <3> QED
      BY <2>1, <3>1 DEF IInv, CallInv, vars
  <2>2. ASSUME NEW t \in Thread, NEW n \in 0 .. MaxSlots,
               GetClassList(t, n) \/ CopyProtocolList(t, n)
        PROVE  IInv'
    BY <2>2, BeginIInv DEF GetClassList, CopyProtocolList
  <2>3. ASSUME NEW t \in Thread, CopyClassList(t)
        PROVE  IInv'
    BY <2>3, BeginIInv, SlotsAssumption DEF CopyClassList
  <2>4. ASSUME NEW t \in Thread, NEW c \in Class,
               \/ AllocateClassPair(t, c) \/ RegisterClassPair(t, c)
               \/ DisposeClassPair(t, c)
        PROVE  IInv'
    BY <2>4, TablesIInv, DisposeIInv
  <2>5. ASSUME NEW t \in Thread, NEW p \in Struct,
               \/ \E i \in Id : AllocateProtocol(t, p, i)
               \/ RegisterProtocol(t, p)
        PROVE  IInv'
    BY <2>5, TablesIInv
  <2>6. ASSUME NEW t \in Thread,
               \/ StartThread(t) \/ EndThread(t) \/ EndGetClassList(t)
               \/ CountClasses(t) \/ FillClasses(t) \/ CountProtocols(t)
               \/ TooManyProtocols(t) \/ FillProtocols(t) \/ Read(t)
        PROVE  IInv'
    BY <2>6, ThreadIInv, EndGetClassListIInv, CountClassesIInv, FillClassesIInv,
       CountProtocolsIInv, TooManyProtocolsIInv, FillProtocolsIInv, ReadIInv
  <2> QED
    BY <2>1, <2>2, <2>3, <2>4, <2>5, <2>6 DEF Next
<1> QED
  BY <1>1, InitIInv, PTL DEF Spec

(* The class table never holds a freed pair, and a protocol is registered  *)
(* under its own id, whatever threads do.                                  *)
THEOREM TypeCorrect == Spec => []TypeOK
<1>1. IInv => TypeOK
  BY DEF IInv, TablesInv, CallInv, TypeOK, protocol_conformsToProtocol
<1> QED
  BY <1>1, Invariance, PTL

(* No listing writes beyond its block.                                     *)
THEOREM WithinBlockTheorem == Spec => []WithinBlock
<1>1. IInv => WithinBlock
  BY DEF IInv, CallInv, CallOK, WithinBlock
<1> QED
  BY <1>1, Invariance, PTL

(* No class is freed while a caller reads a list that has it.              *)
THEOREM ListsLiveTheorem == Spec => []ListsLive
<1>1. IInv => ListsLive
  BY DEF IInv, CallInv, CallOK, ListsLive
<1> QED
  BY <1>1, Invariance, PTL

(* objc_copyClassList has written at least as many classes as it reports.  *)
THEOREM ReportedWrittenTheorem == Spec => []ReportedWritten
<1>1. IInv => ReportedWritten
  <2> SUFFICES ASSUME IInv, NEW t \in Thread, call[t].at = "classes"
               PROVE  Cardinality(call[t].list) >= call[t].count
    BY DEF ReportedWritten
  <2>1. call[t].count <= Cardinality(call[t].list)
    BY CallFacts DEF CallOK
  <2> QED
    BY <2>1
<1> QED
  BY <1>1, Invariance, PTL

(* objc_copyClassList misses a class only if two more have come since it   *)
(* counted them.                                                           *)
THEOREM SpareSlotTheorem == Spec => []SpareSlot
<1>1. IInv => SpareSlot
  BY DEF IInv, CallInv, CallOK, SpareSlot
<1> QED
  BY <1>1, Invariance, PTL

(* A caller that asks for as many protocols as it was told gets as many.   *)
THEOREM LearnedCountTheorem == Spec => []LearnedCountExact
<1>1. IInv => LearnedCountExact
  BY DEF IInv, CallInv, CallOK, LearnedCountExact
<1> QED
  BY <1>1, Invariance, PTL

(* Comparing structs and comparing ids agree on the protocols of a list,   *)
(* and the struct of each is the one that is found for its name.           *)
THEOREM IdentityTheorem == Spec => []IdentityAgrees
<1>1. IInv => IdentityAgrees
  <2> SUFFICES ASSUME IInv, NEW t \in Thread, call[t].at = "protocols",
                      NEW p \in call[t].list, NEW q \in call[t].list
               PROVE  /\ p = q <=> protocolid[p] = protocolid[q]
                      /\ protocols[protocolid[p]] = p
    BY DEF IdentityAgrees, protocol_isEqual, protocol_conformsToProtocol,
           GetProtocol
  <2>1. p \in Registered /\ q \in Registered
    BY CallFacts DEF CallOK
  <2>2. \A o \in Registered : protocolid[o] \in Id /\ protocols[protocolid[o]] = o
    BY DEF IInv, TablesInv, Registered
  <2> QED
    BY <2>1, <2>2
<1> QED
  BY <1>1, Invariance, PTL
=============================================================================
