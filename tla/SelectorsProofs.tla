--------------------------- MODULE SelectorsProofs ---------------------------
(***************************************************************************)
(* Theorems about sel_registerName, for any number of threads and names    *)
(* and any hash function: no leak, no double free, and registration is     *)
(* atomic.                                                                 *)
(***************************************************************************)
EXTENDS Selectors, TLAPS

(* The three blocks of a call, by what has become of them.                 *)
SignatureGifted(t, n) ==
  /\ heap[Signature(t, n)] = (IF n \in Wide THEN "live" ELSE "free")
  /\ gifts[Signature(t, n)] = (IF n \in Wide THEN 1 ELSE 0)

Untouched(t, n) ==
  \A b \in {Desc(t, n), NameOf(t, n), Signature(t, n)} :
    heap[b] = "free" /\ gifts[b] = 0

Prepared(t, n) ==
  /\ \A b \in Allocated(t, n) : heap[b] = "live" /\ gifts[b] = 0
  /\ SignatureGifted(t, n)

Kept(t, n) ==
  /\ \A b \in Allocated(t, n) : heap[b] = "live" /\ gifts[b] = 1
  /\ SignatureGifted(t, n)

Discarded(t, n) ==
  /\ \A b \in Allocated(t, n) : heap[b] = "free" /\ gifts[b] = 0
  /\ SignatureGifted(t, n)

(* A thread has an argument exactly while it is in the call.               *)
StrInv ==
  \A t \in Thread : IF pc[t] = "idle" THEN str[t] = NoName ELSE str[t] \in Name

TableInv ==
  \A i \in Id, t \in Thread, n \in Name : table[i] = <<t, n>> => Hash[n] = i

(* A call that is about to register has blocks of its own; outside of one, *)
(* blocks are there only for names that have a descriptor, and are kept    *)
(* for the registered descriptor and gone for every other.                 *)
BlockInv ==
  \A t \in Thread, n \in Name :
    /\ InFlight(t, n) => Prepared(t, n)
    /\ InFlight(t, n) /\ pc[t] = "gift" => table[Hash[n]] = <<t, n>>
    /\ InFlight(t, n) /\ pc[t] # "gift" => table[Hash[n]] # <<t, n>>
    /\ InFlight(t, n) /\ pc[t] = "discard" => table[Hash[n]] # NoDesc
    /\ ~InFlight(t, n) =>
         IF table[Hash[n]] = <<t, n>> THEN Kept(t, n)
         ELSE \/ Untouched(t, n)
              \/ table[Hash[n]] # NoDesc /\ Discarded(t, n)
    /\ str[t] = n /\ pc[t] = "allocate" => Untouched(t, n)

IInv == TypeOK /\ StrInv /\ TableInv /\ BlockInv

-----------------------------------------------------------------------------
(* Blocks of different calls, and the blocks of one call, are different.   *)
LEMMA BlocksDiffer ==
  ASSUME NEW t \in Thread, NEW n \in Name, NEW u \in Thread, NEW m \in Name
  PROVE  /\ Desc(t, n) \in Block /\ NameOf(t, n) \in Block
         /\ Signature(t, n) \in Block
         /\ Desc(t, n) # NameOf(u, m) /\ Desc(t, n) # Signature(u, m)
         /\ NameOf(t, n) # Signature(u, m)
         /\ Desc(t, n) = Desc(u, m) => t = u /\ n = m
         /\ NameOf(t, n) = NameOf(u, m) => t = u /\ n = m
         /\ Signature(t, n) = Signature(u, m) => t = u /\ n = m
  BY DEF Desc, NameOf, Signature, Block

(* A descriptor made by a call is neither none nor a compiled one.         *)
LEMMA MadeByCall ==
  ASSUME NEW t \in Thread, NEW n \in Name
  PROVE  <<t, n>> # NoDesc /\ <<t, n>> # Static
<1>1. <<t, n>> \in Thread \X Name
  OBVIOUS
<1> QED
  BY <1>1, SelectorAssumption

(* Nothing is allocated before the first call.                             *)
LEMMA InitIInv == Init => IInv
<1> SUFFICES ASSUME Init PROVE IInv
  OBVIOUS
<1>1. TypeOK
  BY DEF Init, TypeOK, Label
<1>2. StrInv
  BY DEF Init, StrInv
<1>3. \A i \in Id, t \in Thread, n \in Name : table[i] # <<t, n>>
  BY MadeByCall DEF Init
<1>4. \A t \in Thread, n \in Name : ~InFlight(t, n) /\ Untouched(t, n)
  BY BlocksDiffer DEF Init, InFlight, Untouched
<1>5. BlockInv
  BY <1>3, <1>4, SelectorAssumption DEF Init, BlockInv
<1> QED
  BY <1>1, <1>2, <1>3, <1>5 DEF IInv, TableInv

(* Every action preserves the invariant.                                   *)
LEMMA NextIInv == IInv /\ [Next]_vars => IInv'
<1> SUFFICES ASSUME TypeOK, StrInv, TableInv, BlockInv, [Next]_vars
             PROVE  IInv'
  BY DEF IInv
<1> USE SelectorAssumption
<1>1. ASSUME NEW t \in Thread, NEW n \in Name, Call(t, n)
      PROVE  IInv'
  <2>1. TypeOK'
    BY <1>1 DEF Call, Goto, TypeOK, StrInv, Label, Gifted, Allocated
  <2>2. StrInv'
    BY <1>1 DEF Call, Goto, TypeOK, StrInv
  <2>3. TableInv'
    BY <1>1 DEF Call, Goto, TypeOK, StrInv, TableInv
  <2>4. BlockInv'
    <3> SUFFICES ASSUME NEW u \in Thread, NEW k \in Name
                 PROVE  BlockInv!(u, k)'
      BY DEF BlockInv
    <3> QED
      BY <1>1, BlocksDiffer, MadeByCall
      DEF Call, Goto, TypeOK, StrInv, TableInv, BlockInv,
          InFlight, Untouched, Prepared, Kept, Discarded, SignatureGifted,
        Allocated, Gifted
  <2> QED
    BY <2>1, <2>2, <2>3, <2>4 DEF IInv
<1>2. ASSUME NEW t \in Thread, LookupHit(t)
      PROVE  IInv'
  <2>1. TypeOK'
    BY <1>2 DEF LookupHit, Goto, TypeOK, StrInv, Label, Gifted, Allocated
  <2>2. StrInv'
    BY <1>2 DEF LookupHit, Goto, TypeOK, StrInv
  <2>3. TableInv'
    BY <1>2 DEF LookupHit, Goto, TypeOK, StrInv, TableInv
  <2>4. BlockInv'
    <3> SUFFICES ASSUME NEW u \in Thread, NEW k \in Name
                 PROVE  BlockInv!(u, k)'
      BY DEF BlockInv
    <3> QED
      BY <1>2, BlocksDiffer, MadeByCall
      DEF LookupHit, Goto, TypeOK, StrInv, TableInv, BlockInv,
          InFlight, Untouched, Prepared, Kept, Discarded, SignatureGifted,
        Allocated, Gifted
  <2> QED
    BY <2>1, <2>2, <2>3, <2>4 DEF IInv
<1>3. ASSUME NEW t \in Thread, LookupMiss(t)
      PROVE  IInv'
  <2>1. TypeOK'
    BY <1>3 DEF LookupMiss, Goto, TypeOK, StrInv, Label, Gifted, Allocated
  <2>2. StrInv'
    BY <1>3 DEF LookupMiss, Goto, TypeOK, StrInv
  <2>3. TableInv'
    BY <1>3 DEF LookupMiss, Goto, TypeOK, StrInv, TableInv
  <2>4. BlockInv'
    <3> SUFFICES ASSUME NEW u \in Thread, NEW k \in Name
                 PROVE  BlockInv!(u, k)'
      BY DEF BlockInv
    <3>1. /\ Untouched(u, k)' <=> Untouched(u, k)
          /\ Prepared(u, k)' <=> Prepared(u, k)
          /\ Kept(u, k)' <=> Kept(u, k)
          /\ Discarded(u, k)' <=> Discarded(u, k)
      BY <1>3 DEF LookupMiss, Untouched, Prepared, Kept, Discarded,
         SignatureGifted
    <3>2. InFlight(u, k)' <=> InFlight(u, k)
      BY <1>3 DEF LookupMiss, Goto, TypeOK, InFlight
    <3>3. ASSUME str'[u] = k, pc'[u] = "allocate"
          PROVE  Untouched(u, k)
      <4>1. CASE u = t
        <5>1. table[Hash[k]] = NoDesc /\ ~InFlight(u, k)
          BY <1>3, <3>3, <4>1 DEF LookupMiss, InFlight
        <5> QED
          BY <5>1, MadeByCall DEF BlockInv
      <4>2. CASE u # t
        BY <1>3, <3>3, <4>2 DEF LookupMiss, Goto, TypeOK, BlockInv
      <4> QED
        BY <4>1, <4>2
    <3> QED
      BY <1>3, <3>1, <3>2, <3>3 DEF LookupMiss, Goto, TypeOK, BlockInv
  <2> QED
    BY <2>1, <2>2, <2>3, <2>4 DEF IInv
<1>4. ASSUME NEW t \in Thread, Allocate(t)
      PROVE  IInv'
  <2>1. TypeOK'
    BY <1>4 DEF Allocate, Goto, TypeOK, StrInv, Label, Gifted, Allocated
  <2>2. StrInv'
    BY <1>4 DEF Allocate, Goto, TypeOK, StrInv
  <2>3. TableInv'
    BY <1>4 DEF Allocate, Goto, TypeOK, StrInv, TableInv
  <2>4. BlockInv'
    <3> SUFFICES ASSUME NEW u \in Thread, NEW k \in Name
                 PROVE  BlockInv!(u, k)'
      BY DEF BlockInv
    <3> QED
      BY <1>4, BlocksDiffer, MadeByCall
      DEF Allocate, Goto, TypeOK, StrInv, TableInv, BlockInv,
          InFlight, Untouched, Prepared, Kept, Discarded, SignatureGifted,
        Allocated, Gifted
  <2> QED
    BY <2>1, <2>2, <2>3, <2>4 DEF IInv
<1>5. ASSUME NEW t \in Thread, RegisterWin(t)
      PROVE  IInv'
  <2>1. TypeOK'
    BY <1>5 DEF RegisterWin, Goto, TypeOK, StrInv, Label, Gifted, Allocated
  <2>2. StrInv'
    BY <1>5 DEF RegisterWin, Goto, TypeOK, StrInv
  <2>3. TableInv'
    BY <1>5 DEF RegisterWin, Goto, TypeOK, StrInv, TableInv
  <2>4. BlockInv'
    <3> SUFFICES ASSUME NEW u \in Thread, NEW k \in Name
                 PROVE  BlockInv!(u, k)'
      BY DEF BlockInv
    <3>1. /\ Untouched(u, k)' <=> Untouched(u, k)
          /\ Prepared(u, k)' <=> Prepared(u, k)
          /\ Kept(u, k)' <=> Kept(u, k)
          /\ Discarded(u, k)' <=> Discarded(u, k)
      BY <1>5 DEF RegisterWin, Untouched, Prepared, Kept, Discarded,
         SignatureGifted
    <3>2. InFlight(u, k)' <=> InFlight(u, k)
      BY <1>5 DEF RegisterWin, Goto, TypeOK, InFlight
    <3>3. str[t] \in Name /\ Hash[str[t]] \in Id /\ Hash[k] \in Id
      BY <1>5 DEF RegisterWin, StrInv
    <3>4. CASE u = t /\ k = str[t]
      <4>1. table'[Hash[k]] = <<u, k>> /\ pc'[u] = "gift" /\ InFlight(u, k)
        BY <1>5, <3>3, <3>4 DEF RegisterWin, Goto, TypeOK, InFlight
      <4> QED
        BY <3>1, <3>2, <4>1 DEF BlockInv
    <3>5. CASE ~(u = t /\ k = str[t])
      <4>1. table'[Hash[k]] = <<u, k>> <=> table[Hash[k]] = <<u, k>>
        BY <1>5, <3>3, <3>5, MadeByCall DEF RegisterWin, TypeOK
      <4>2. table[Hash[k]] # NoDesc => table'[Hash[k]] # NoDesc
        BY <1>5, <3>3, MadeByCall DEF RegisterWin, TypeOK
      <4>3. str'[u] = k => str[u] = k /\ pc'[u] = pc[u]
        BY <1>5, <3>5 DEF RegisterWin, Goto, TypeOK
      <4>4. InFlight(u, k)' => str'[u] = k
        BY DEF InFlight
      <4> QED
        BY <3>1, <3>2, <4>1, <4>2, <4>3, <4>4 DEF BlockInv
    <3> QED
      BY <3>4, <3>5
  <2> QED
    BY <2>1, <2>2, <2>3, <2>4 DEF IInv
<1>6. ASSUME NEW t \in Thread, RegisterLose(t)
      PROVE  IInv'
  <2>1. TypeOK'
    BY <1>6 DEF RegisterLose, Goto, TypeOK, StrInv, Label, Gifted, Allocated
  <2>2. StrInv'
    BY <1>6 DEF RegisterLose, Goto, TypeOK, StrInv
  <2>3. TableInv'
    BY <1>6 DEF RegisterLose, Goto, TypeOK, StrInv, TableInv
  <2>4. BlockInv'
    <3> SUFFICES ASSUME NEW u \in Thread, NEW k \in Name
                 PROVE  BlockInv!(u, k)'
      BY DEF BlockInv
    <3> QED
      BY <1>6, BlocksDiffer, MadeByCall
      DEF RegisterLose, Goto, TypeOK, StrInv, TableInv, BlockInv,
          InFlight, Untouched, Prepared, Kept, Discarded, SignatureGifted,
        Allocated, Gifted
  <2> QED
    BY <2>1, <2>2, <2>3, <2>4 DEF IInv
<1>7. ASSUME NEW t \in Thread, Discard(t)
      PROVE  IInv'
  <2>1. TypeOK'
    BY <1>7 DEF Discard, Goto, TypeOK, StrInv, Label, Gifted, Allocated
  <2>2. StrInv'
    BY <1>7 DEF Discard, Goto, TypeOK, StrInv
  <2>3. TableInv'
    BY <1>7 DEF Discard, Goto, TypeOK, StrInv, TableInv
  <2>4. BlockInv'
    <3> SUFFICES ASSUME NEW u \in Thread, NEW k \in Name
                 PROVE  BlockInv!(u, k)'
      BY DEF BlockInv
    <3> QED
      BY <1>7, BlocksDiffer, MadeByCall
      DEF Discard, Goto, TypeOK, StrInv, TableInv, BlockInv,
          InFlight, Untouched, Prepared, Kept, Discarded, SignatureGifted,
        Allocated, Gifted
  <2> QED
    BY <2>1, <2>2, <2>3, <2>4 DEF IInv
<1>8. ASSUME NEW t \in Thread, Gift(t)
      PROVE  IInv'
  <2>1. TypeOK'
    BY <1>8 DEF Gift, Goto, TypeOK, StrInv, Label, Gifted, Allocated
  <2>2. StrInv'
    BY <1>8 DEF Gift, Goto, TypeOK, StrInv
  <2>3. TableInv'
    BY <1>8 DEF Gift, Goto, TypeOK, StrInv, TableInv
  <2>4. BlockInv'
    <3> SUFFICES ASSUME NEW u \in Thread, NEW k \in Name
                 PROVE  BlockInv!(u, k)'
      BY DEF BlockInv
    <3> QED
      BY <1>8, BlocksDiffer, MadeByCall
      DEF Gift, Goto, TypeOK, StrInv, TableInv, BlockInv,
          InFlight, Untouched, Prepared, Kept, Discarded, SignatureGifted,
        Allocated, Gifted
  <2> QED
    BY <2>1, <2>2, <2>3, <2>4 DEF IInv
<1>9. ASSUME NEW t \in Thread, ReturnId(t)
      PROVE  IInv'
  <2>1. TypeOK'
    BY <1>9 DEF ReturnId, Goto, Return, TypeOK, StrInv, Label, Gifted, Allocated
  <2>2. StrInv'
    BY <1>9 DEF ReturnId, Goto, Return, TypeOK, StrInv
  <2>3. TableInv'
    BY <1>9 DEF ReturnId, Goto, Return, TypeOK, StrInv, TableInv
  <2>4. BlockInv'
    <3> SUFFICES ASSUME NEW u \in Thread, NEW k \in Name
                 PROVE  BlockInv!(u, k)'
      BY DEF BlockInv
    <3> QED
      BY <1>9, BlocksDiffer, MadeByCall
      DEF ReturnId, Goto, Return, TypeOK, StrInv, TableInv, BlockInv,
          InFlight, Untouched, Prepared, Kept, Discarded, SignatureGifted,
        Allocated, Gifted
  <2> QED
    BY <2>1, <2>2, <2>3, <2>4 DEF IInv
<1>10. CASE UNCHANGED vars
  BY <1>10 DEF vars, IInv, TypeOK, StrInv, TableInv, BlockInv, InFlight,
     Untouched, Prepared, Kept, Discarded, SignatureGifted
<1> QED
  BY <1>1, <1>2, <1>3, <1>4, <1>5, <1>6, <1>7, <1>8, <1>9, <1>10
  DEF Next, Step

(* The inductive invariant holds in every reachable state.                 *)
THEOREM Invariance == Spec => []IInv
  BY InitIInv, NextIInv, PTL DEF Spec

(* The descriptor table only ever holds descriptors and the gift list only *)
(* counts, at every interleaving of any number of calls.                   *)
THEOREM TypeCorrect == Spec => []TypeOK
  BY Invariance, PTL DEF IInv

(* A member of Block is a block of some call.                              *)
LEMMA BlockCases ==
  ASSUME NEW b \in Block
  PROVE  \E t \in Thread, n \in Name :
           b \in {Desc(t, n), NameOf(t, n), Signature(t, n)}
  BY DEF Block, Desc, NameOf, Signature

(* What has become of the three blocks of any call, at any time.           *)
LEMMA BlockFate ==
  ASSUME IInv, NEW t \in Thread, NEW n \in Name
  PROVE  Untouched(t, n) \/ Prepared(t, n) \/ Kept(t, n) \/ Discarded(t, n)
  BY DEF IInv, BlockInv

(* However calls race, tearing the universe down frees no block twice and  *)
(* none that a call has already freed.                                     *)
THEOREM NoDoubleFreeTheorem == Spec => []NoDoubleFree
<1>1. IInv => NoDoubleFree
  <2> SUFFICES ASSUME IInv, NEW b \in Block
               PROVE  gifts[b] <= 1 /\ (gifts[b] = 1 => heap[b] = "live")
    BY DEF NoDoubleFree
  <2>1. PICK t \in Thread, n \in Name :
          b \in {Desc(t, n), NameOf(t, n), Signature(t, n)}
    BY BlockCases
  <2> QED
    BY <2>1, BlockFate
    DEF Untouched, Prepared, Kept, Discarded, SignatureGifted, Allocated
<1> QED
  BY <1>1, Invariance, PTL

(* However calls race, what a call leaves allocated is on the gift list.   *)
THEOREM NoLeakTheorem == Spec => []NoLeak
<1>1. IInv => NoLeak
  <2> SUFFICES ASSUME IInv, NEW t \in Thread, NEW n \in Name, ~InFlight(t, n)
               PROVE  \A b \in {Desc(t, n), NameOf(t, n), Signature(t, n)} :
                        heap[b] = "live" => gifts[b] = 1
    BY DEF NoLeak
  <2>1. Untouched(t, n) \/ Kept(t, n) \/ Discarded(t, n)
    BY DEF IInv, BlockInv
  <2> QED
    BY <2>1 DEF Untouched, Kept, Discarded, SignatureGifted, Allocated
<1> QED
  BY <1>1, Invariance, PTL

(* A registered descriptor and what it points to are never freed.          *)
THEOREM PublishedTheorem == Spec => []Published
<1>1. IInv => Published
  <2> SUFFICES ASSUME IInv, NEW i \in Id, NEW t \in Thread, NEW n \in Name,
                      table[i] = <<t, n>>
               PROVE  /\ Hash[n] = i
                      /\ heap[Desc(t, n)] = "live" /\ heap[NameOf(t, n)] = "live"
                      /\ n \in Wide => heap[Signature(t, n)] = "live"
    BY DEF Published
  <2>1. Hash[n] = i
    BY DEF IInv, TableInv
  <2>2. Prepared(t, n) \/ Kept(t, n)
    BY <2>1 DEF IInv, BlockInv
  <2> QED
    BY <2>1, <2>2 DEF Prepared, Kept, SignatureGifted, Allocated
<1> QED
  BY <1>1, Invariance, PTL

-----------------------------------------------------------------------------
(* The registry's steps behind those of the code.                          *)
LEMMA InitRefines == Init => Registry!Init
  BY SelectorAssumption DEF Init, Registry!Init

(* sel_registerName implements the registry: for concurrent callers it is  *)
(* as if the name were looked up and registered in one step.               *)
THEOREM RegistryTheorem == Spec => RegistersAtomically
<1>1. IInv /\ [Next]_vars => [Registry!Next]_(Registry!rvars)
  <2> SUFFICES ASSUME IInv, [Next]_vars
               PROVE  Registry!Next \/ UNCHANGED Registry!rvars
    BY DEF Registry!rvars
  <2> USE DEF IInv, TypeOK, StrInv, Registry!rvars
  <2>1. ASSUME NEW t \in Thread, NEW n \in Name, Call(t, n)
        PROVE  Registry!Ask(t, n)
    BY <2>1 DEF Call, Goto, Registry!Ask
  <2>2. ASSUME NEW t \in Thread, LookupHit(t)
        PROVE  Registry!Answer(t)
    BY <2>2, SelectorAssumption DEF LookupHit, Goto, Registry!Answer
  <2>3. ASSUME NEW t \in Thread, LookupMiss(t) \/ Allocate(t)
        PROVE  UNCHANGED Registry!rvars
    BY <2>3 DEF LookupMiss, Allocate, Goto
  <2>4. ASSUME NEW t \in Thread, RegisterWin(t)
        PROVE  Registry!Answer(t)
    BY <2>4, SelectorAssumption, MadeByCall DEF RegisterWin, Goto,
       Registry!Answer
  <2>5. ASSUME NEW t \in Thread, RegisterLose(t)
        PROVE  Registry!Answer(t)
    BY <2>5, SelectorAssumption DEF RegisterLose, Goto, Registry!Answer
  <2>6. ASSUME NEW t \in Thread, Discard(t) \/ Gift(t)
        PROVE  UNCHANGED Registry!rvars
    BY <2>6 DEF Discard, Gift, Goto
  <2>7. ASSUME NEW t \in Thread, ReturnId(t)
        PROVE  Registry!Return(t)
    BY <2>7 DEF ReturnId, Return, Goto, Registry!Return
  <2>8. CASE UNCHANGED vars
    BY <2>8 DEF vars
  <2> QED
    BY <2>1, <2>2, <2>3, <2>4, <2>5, <2>6, <2>7, <2>8
    DEF Next, Step, Registry!Next
<1> QED
  BY <1>1, InitRefines, Invariance, PTL
  DEF Spec, RegistersAtomically, Registry!Spec
=============================================================================
