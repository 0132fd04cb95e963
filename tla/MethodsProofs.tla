---------------------------- MODULE MethodsProofs ----------------------------
(***************************************************************************)
(* Theorems about method dispatch, for every set of threads, classes and   *)
(* selectors and every class hierarchy.                                    *)
(***************************************************************************)
EXTENDS Methods, TLAPS, WellFoundedInduction

(* The labels between taking and releasing the universe lock.              *)
CriticalLabel ==
  {"lookupMethod", "setFound", "addList", "exchangeRead", "exchangeFirst",
   "exchangeSecond", "invalidate", "unlock"}

(* A thread in a call has a frame; the lock's owner, and nobody else, is   *)
(* in a critical section.                                                  *)
FrameInv == \A t \in Thread : pc[t] # "idle" => frame[t] \in Frame

LockInv == \A t \in Thread : pc[t] \in CriticalLabel <=> lock = t

(* A class has a method exactly when the method has an implementation.     *)
PresentInv ==
  \A m \in Method : nMethods[m] \in {0, 1} /\ (nMethods[m] = 0 <=> imp[m] = NoImp)

(* What holds of the frame of a thread at each label.                      *)
CallInv ==
  \A t \in Thread :
    LET f == frame[t] IN
    /\ pc[t] = "lock" /\ f.op = "exchange" =>
         nMethods[f.m] = 1 /\ nMethods[f.n] = 1
    /\ pc[t] = "lock" /\ f.op # "exchange" => f.imp \in Imp
    /\ pc[t] \in {"lookupMethod", "setFound", "addList"} =>
         f.op # "exchange" /\ f.imp \in Imp
    /\ pc[t] = "addList" => nMethods[f.m] = 0
    /\ pc[t] = "setFound" => nMethods[f.m] = 1
    /\ pc[t] \in {"exchangeRead", "exchangeFirst", "exchangeSecond"} =>
         nMethods[f.m] = 1 /\ nMethods[f.n] = 1
    /\ pc[t] \in {"exchangeFirst", "exchangeSecond"} =>
         f.imp \in Imp /\ f.res \in Imp
    /\ pc[t] \in {"exchangeRead", "exchangeFirst", "exchangeSecond",
                  "invalidate"} => f.op = "exchange"
    /\ pc[t] = "unlock" /\ f.op # "exchange" => f.imp \in Imp

IInv == TypeOK /\ FrameInv /\ LockInv /\ PresentInv /\ CallInv

-----------------------------------------------------------------------------
(* A nonempty set of naturals contains its minimum.                        *)
LEMMA MinInSet ==
  ASSUME NEW S, S \subseteq Nat, S # {}
  PROVE  Min(S) \in S
<1>1. PICK x \in S : \A y \in S : <<y, x>> \notin OpToRel(<, Nat)
  BY NatLessThanWellFounded, WFMin
<1>2. \A y \in S : ~(y < x)
  BY <1>1, Zenon DEF OpToRel
<1>3. \A y \in S : x =< y
  BY <1>2
<1> QED
  BY <1>3 DEF Min

(* An uncached lookup answers an implementation or the forward handler.    *)
LEMMA SearchType ==
  ASSUME TypeOK, NEW c \in Class, NEW s \in Sel
  PROVE  /\ Implementors(c, s) # {} => InstanceMethod(c, s) \in Method
         /\ Search(c, s) \in Imp \cup {Forward}
<1>1. Lineage[c] \in Seq(Class)
  BY LineageAssumption
<1>2. \A i \in DOMAIN Lineage[c] : Lineage[c][i] \in Class
  BY <1>1
<1>3. Implementors(c, s) \subseteq Nat
  BY <1>1 DEF Implementors
<1>4. CASE Implementors(c, s) = {}
  BY <1>4 DEF Search
<1>5. CASE Implementors(c, s) # {}
  <2> DEFINE i == Min(Implementors(c, s))
  <2>1. i \in Implementors(c, s)
    BY <1>3, <1>5, MinInSet
  <2>2. i \in DOMAIN Lineage[c] /\ imp[<<Lineage[c][i], s>>] # NoImp
    BY <2>1 DEF Implementors
  <2>3. InstanceMethod(c, s) \in Method /\ imp[InstanceMethod(c, s)] # NoImp
    BY <1>2, <2>2 DEF InstanceMethod, Method
  <2> QED
    BY <2>3, <1>5 DEF TypeOK, Search
<1> QED
  BY <1>4, <1>5

(* The fields of the frame of a thread in a call.                          *)
LEMMA FrameType ==
  ASSUME FrameInv, NEW t \in Thread, pc[t] # "idle"
  PROVE  /\ frame[t] \in Frame
         /\ frame[t].op \in EntryPoint
         /\ frame[t].m \in Method /\ frame[t].n \in Method
         /\ frame[t].imp \in Imp \cup {NoImp}
         /\ frame[t].res \in Imp \cup {NoImp}
  BY DEF FrameInv, Frame

-----------------------------------------------------------------------------
(* The invariant is inductive.                                             *)
LEMMA InitIInv == Init => IInv
  BY DefinedAssumption, SentinelAssumption
  DEF Init, IInv, TypeOK, FrameInv, LockInv, PresentInv, CallInv,
      CriticalLabel, Label

(* Every step of every call preserves the inductive invariant, action by   *)
(* action.                                                                 *)
LEMMA NextIInv == IInv /\ [Next]_vars => IInv'
<1> SUFFICES ASSUME TypeOK, FrameInv, LockInv, PresentInv, CallInv, [Next]_vars
             PROVE  IInv'
  BY DEF IInv
<1> USE SentinelAssumption DEF dispatch, history
<1>1. ASSUME NEW s \in Sel, RegisterSelector(s)
      PROVE  IInv'
  <2>1. TypeOK'
    BY <1>1 DEF RegisterSelector, TypeOK, Label, Frame, EntryPoint
  <2>2. FrameInv'
    BY <1>1 DEF RegisterSelector, TypeOK, FrameInv, Frame, EntryPoint
  <2>3. LockInv'
    BY <1>1 DEF RegisterSelector, TypeOK, LockInv, CriticalLabel
  <2>4. PresentInv'
    BY <1>1 DEF RegisterSelector, TypeOK, PresentInv, CallInv
  <2>5. CallInv'
    BY <1>1 DEF RegisterSelector, TypeOK, LockInv, PresentInv, CallInv,
       CriticalLabel
  <2> QED
    BY <2>1, <2>2, <2>3, <2>4, <2>5 DEF IInv
<1>2. ASSUME NEW t \in Thread, NEW op \in Calls, NEW m \in Method,
             NEW i \in Imp, BeginReplace(t, op, m, i)
      PROVE  IInv'
  <2>1. TypeOK'
    BY <1>2 DEF BeginReplace, Goto, Call, TypeOK, Label, Frame, EntryPoint
  <2>2. FrameInv'
    BY <1>2 DEF BeginReplace, Goto, Call, TypeOK, FrameInv, Frame, EntryPoint
  <2>3. LockInv'
    BY <1>2 DEF BeginReplace, Goto, Call, TypeOK, LockInv, CriticalLabel
  <2>4. PresentInv'
    BY <1>2 DEF BeginReplace, Goto, Call, TypeOK, PresentInv, CallInv
  <2>5. CallInv'
    BY <1>2 DEF BeginReplace, Goto, Call, TypeOK, LockInv, PresentInv,
       CallInv, CriticalLabel
  <2> QED
    BY <2>1, <2>2, <2>3, <2>4, <2>5 DEF IInv
<1>3. ASSUME NEW t \in Thread, NEW op \in Calls, NEW m \in Method,
             NEW i \in Imp, UnknownSelector(t, op, m, i)
      PROVE  IInv'
  <2>1. TypeOK'
    BY <1>3 DEF UnknownSelector, TypeOK, Label, Frame, EntryPoint
  <2>2. FrameInv'
    BY <1>3 DEF UnknownSelector, TypeOK, FrameInv, Frame, EntryPoint
  <2>3. LockInv'
    BY <1>3 DEF UnknownSelector, TypeOK, LockInv, CriticalLabel
  <2>4. PresentInv'
    BY <1>3 DEF UnknownSelector, TypeOK, PresentInv, CallInv
  <2>5. CallInv'
    BY <1>3 DEF UnknownSelector, TypeOK, LockInv, PresentInv, CallInv,
       CriticalLabel
  <2> QED
    BY <2>1, <2>2, <2>3, <2>4, <2>5 DEF IInv
<1>4. ASSUME NEW t \in Thread, NEW m \in Method, NEW i \in Imp,
             SetImplementation(t, m, i)
      PROVE  IInv'
  <2>1. TypeOK'
    BY <1>4 DEF SetImplementation, TypeOK, Label, Frame, EntryPoint, PresentInv
  <2>2. FrameInv'
    BY <1>4 DEF SetImplementation, TypeOK, FrameInv, Frame, EntryPoint
  <2>3. LockInv'
    BY <1>4 DEF SetImplementation, TypeOK, LockInv, CriticalLabel
  <2>4. PresentInv'
    BY <1>4 DEF SetImplementation, TypeOK, PresentInv, CallInv
  <2>5. CallInv'
    BY <1>4 DEF SetImplementation, TypeOK, LockInv, PresentInv, CallInv,
       CriticalLabel
  <2> QED
    BY <2>1, <2>2, <2>3, <2>4, <2>5 DEF IInv
<1>5. ASSUME NEW t \in Thread, NEW m \in Method, NEW n \in Method,
             BeginExchange(t, m, n)
      PROVE  IInv'
  <2>1. TypeOK'
    BY <1>5 DEF BeginExchange, Goto, Call, TypeOK, Label, Frame, EntryPoint
  <2>2. FrameInv'
    BY <1>5 DEF BeginExchange, Goto, Call, TypeOK, FrameInv, Frame, EntryPoint
  <2>3. LockInv'
    BY <1>5 DEF BeginExchange, Goto, Call, TypeOK, LockInv, CriticalLabel
  <2>4. PresentInv'
    BY <1>5 DEF BeginExchange, Goto, Call, TypeOK, PresentInv, CallInv
  <2>5. CallInv'
    BY <1>5 DEF BeginExchange, Goto, Call, TypeOK, LockInv, PresentInv,
       CallInv, CriticalLabel
  <2> QED
    BY <2>1, <2>2, <2>3, <2>4, <2>5 DEF IInv
<1>6. ASSUME NEW t \in Thread, NEW m \in Method,
             GetMethodImplementation(t, m)
      PROVE  IInv'
  <2>a. {Lineage[m[1]][i] : i \in DOMAIN Lineage[m[1]]} \subseteq Class
    <3>1. m[1] \in Class
      BY <1>6 DEF Method
    <3>2. Lineage[m[1]] \in Seq(Class)
      BY <3>1, LineageAssumption
    <3> QED
      BY <3>2
  <2>1. TypeOK'
    BY <1>6, <2>a DEF GetMethodImplementation, Goto, Call, TypeOK, Label,
       Frame, EntryPoint
  <2>2. FrameInv'
    BY <1>6 DEF GetMethodImplementation, Goto, Call, TypeOK, FrameInv, Frame,
       EntryPoint
  <2>3. LockInv'
    BY <1>6 DEF GetMethodImplementation, Goto, Call, TypeOK, LockInv,
       CriticalLabel
  <2>4. PresentInv'
    BY <1>6 DEF GetMethodImplementation, Goto, Call, TypeOK, PresentInv, CallInv
  <2>5. CallInv'
    BY <1>6 DEF GetMethodImplementation, Goto, Call, TypeOK, LockInv,
       PresentInv, CallInv, CriticalLabel
  <2> QED
    BY <2>1, <2>2, <2>3, <2>4, <2>5 DEF IInv
<1>7. ASSUME NEW t \in Thread, AcquireLock(t)
      PROVE  IInv'
  <2>0. pc[t] # "idle" /\ frame[t] \in Frame /\ frame[t].op \in EntryPoint
        /\ frame[t].m \in Method /\ frame[t].n \in Method
        /\ frame[t].imp \in Imp \cup {NoImp}
        /\ frame[t].res \in Imp \cup {NoImp}
    BY <1>7, FrameType DEF AcquireLock
  <2>1. TypeOK'
    BY <1>7, <2>0 DEF AcquireLock, Goto, TypeOK, Label, Frame, EntryPoint
  <2>2. FrameInv'
    BY <1>7, <2>0 DEF AcquireLock, Goto, TypeOK, FrameInv, Frame, EntryPoint
  <2>3. LockInv'
    BY <1>7, <2>0 DEF AcquireLock, Goto, TypeOK, LockInv, CriticalLabel
  <2>4. PresentInv'
    BY <1>7, <2>0 DEF AcquireLock, Goto, TypeOK, PresentInv, CallInv
  <2>5. CallInv'
    BY <1>7, <2>0 DEF AcquireLock, Goto, TypeOK, LockInv, PresentInv, CallInv,
       CriticalLabel
  <2> QED
    BY <2>1, <2>2, <2>3, <2>4, <2>5 DEF IInv
<1>8. ASSUME NEW t \in Thread, LookupMethodFound(t)
      PROVE  IInv'
  <2>0. pc[t] # "idle" /\ frame[t] \in Frame /\ frame[t].op \in EntryPoint
        /\ frame[t].m \in Method /\ frame[t].n \in Method
        /\ frame[t].imp \in Imp \cup {NoImp}
        /\ frame[t].res \in Imp \cup {NoImp}
    BY <1>8, FrameType DEF LookupMethodFound
  <2>1. TypeOK'
    BY <1>8, <2>0 DEF LookupMethodFound, Goto, TypeOK, Label, Frame, EntryPoint
  <2>2. FrameInv'
    BY <1>8, <2>0 DEF LookupMethodFound, Goto, TypeOK, FrameInv, Frame,
       EntryPoint
  <2>3. LockInv'
    BY <1>8, <2>0 DEF LookupMethodFound, Goto, TypeOK, LockInv, CriticalLabel
  <2>4. PresentInv'
    BY <1>8, <2>0 DEF LookupMethodFound, Goto, TypeOK, PresentInv, CallInv
  <2>5. CallInv'
    BY <1>8, <2>0 DEF LookupMethodFound, Goto, TypeOK, LockInv, PresentInv,
       CallInv, CriticalLabel
  <2> QED
    BY <2>1, <2>2, <2>3, <2>4, <2>5 DEF IInv
<1>9. ASSUME NEW t \in Thread, LookupMethodAbsent(t)
      PROVE  IInv'
  <2>0. pc[t] # "idle" /\ frame[t] \in Frame /\ frame[t].op \in EntryPoint
        /\ frame[t].m \in Method /\ frame[t].n \in Method
        /\ frame[t].imp \in Imp \cup {NoImp}
        /\ frame[t].res \in Imp \cup {NoImp}
    BY <1>9, FrameType DEF LookupMethodAbsent
  <2>1. TypeOK'
    BY <1>9, <2>0 DEF LookupMethodAbsent, Goto, TypeOK, Label, Frame, EntryPoint
  <2>2. FrameInv'
    BY <1>9, <2>0 DEF LookupMethodAbsent, Goto, TypeOK, FrameInv, Frame,
       EntryPoint
  <2>3. LockInv'
    BY <1>9, <2>0 DEF LookupMethodAbsent, Goto, TypeOK, LockInv, CriticalLabel
  <2>4. PresentInv'
    BY <1>9, <2>0 DEF LookupMethodAbsent, Goto, TypeOK, PresentInv, CallInv
  <2>5. CallInv'
    BY <1>9, <2>0 DEF LookupMethodAbsent, Goto, TypeOK, LockInv, PresentInv,
       CallInv, CriticalLabel
  <2> QED
    BY <2>1, <2>2, <2>3, <2>4, <2>5 DEF IInv
<1>10. ASSUME NEW t \in Thread, SetFound(t)
      PROVE  IInv'
  <2>0. pc[t] # "idle" /\ frame[t] \in Frame /\ frame[t].op \in EntryPoint
        /\ frame[t].m \in Method /\ frame[t].n \in Method
        /\ frame[t].imp \in Imp \cup {NoImp}
        /\ frame[t].res \in Imp \cup {NoImp}
    BY <1>10, FrameType DEF SetFound
  <2>1. TypeOK'
    BY <1>10, <2>0 DEF SetFound, Goto, TypeOK, Label, Frame, EntryPoint, CallInv
  <2>2. FrameInv'
    BY <1>10, <2>0 DEF SetFound, Goto, TypeOK, FrameInv, Frame, EntryPoint
  <2>3. LockInv'
    BY <1>10, <2>0 DEF SetFound, Goto, TypeOK, LockInv, CriticalLabel
  <2>4. PresentInv'
    BY <1>10, <2>0 DEF SetFound, Goto, TypeOK, PresentInv, CallInv
  <2>5. CallInv'
    BY <1>10, <2>0 DEF SetFound, Goto, TypeOK, LockInv, PresentInv, CallInv,
       CriticalLabel
  <2> QED
    BY <2>1, <2>2, <2>3, <2>4, <2>5 DEF IInv
<1>11. ASSUME NEW t \in Thread, AddList(t)
      PROVE  IInv'
  <2>0. pc[t] # "idle" /\ frame[t] \in Frame /\ frame[t].op \in EntryPoint
        /\ frame[t].m \in Method /\ frame[t].n \in Method
        /\ frame[t].imp \in Imp \cup {NoImp}
        /\ frame[t].res \in Imp \cup {NoImp}
    BY <1>11, FrameType DEF AddList
  <2>1. TypeOK'
    BY <1>11, <2>0 DEF AddList, Goto, TypeOK, Label, Frame, EntryPoint,
       PresentInv, CallInv
  <2>2. FrameInv'
    BY <1>11, <2>0 DEF AddList, Goto, TypeOK, FrameInv, Frame, EntryPoint
  <2>3. LockInv'
    BY <1>11, <2>0 DEF AddList, Goto, TypeOK, LockInv, CriticalLabel
  <2>4. PresentInv'
    BY <1>11, <2>0 DEF AddList, Goto, TypeOK, PresentInv, CallInv
  <2>5. CallInv'
    BY <1>11, <2>0 DEF AddList, Goto, TypeOK, LockInv, PresentInv, CallInv,
       CriticalLabel
  <2> QED
    BY <2>1, <2>2, <2>3, <2>4, <2>5 DEF IInv
<1>12. ASSUME NEW t \in Thread, ExchangeRead(t)
      PROVE  IInv'
  <2>0. pc[t] # "idle" /\ frame[t] \in Frame /\ frame[t].op \in EntryPoint
        /\ frame[t].m \in Method /\ frame[t].n \in Method
        /\ frame[t].imp \in Imp \cup {NoImp}
        /\ frame[t].res \in Imp \cup {NoImp}
    BY <1>12, FrameType DEF ExchangeRead
  <2>1. TypeOK'
    BY <1>12, <2>0 DEF ExchangeRead, Goto, TypeOK, Label, Frame, EntryPoint
  <2>2. FrameInv'
    BY <1>12, <2>0 DEF ExchangeRead, Goto, TypeOK, FrameInv, Frame, EntryPoint
  <2>3. LockInv'
    BY <1>12, <2>0 DEF ExchangeRead, Goto, TypeOK, LockInv, CriticalLabel
  <2>4. PresentInv'
    BY <1>12, <2>0 DEF ExchangeRead, Goto, TypeOK, PresentInv, CallInv
  <2>5. CallInv'
    BY <1>12, <2>0 DEF ExchangeRead, Goto, TypeOK, LockInv, PresentInv,
       CallInv, CriticalLabel
  <2> QED
    BY <2>1, <2>2, <2>3, <2>4, <2>5 DEF IInv
<1>13. ASSUME NEW t \in Thread, ExchangeFirst(t)
      PROVE  IInv'
  <2>0. pc[t] # "idle" /\ frame[t] \in Frame /\ frame[t].op \in EntryPoint
        /\ frame[t].m \in Method /\ frame[t].n \in Method
        /\ frame[t].imp \in Imp \cup {NoImp}
        /\ frame[t].res \in Imp \cup {NoImp}
    BY <1>13, FrameType DEF ExchangeFirst
  <2>1. TypeOK'
    BY <1>13, <2>0 DEF ExchangeFirst, Goto, TypeOK, Label, Frame, EntryPoint,
       CallInv
  <2>2. FrameInv'
    BY <1>13, <2>0 DEF ExchangeFirst, Goto, TypeOK, FrameInv, Frame, EntryPoint
  <2>3. LockInv'
    BY <1>13, <2>0 DEF ExchangeFirst, Goto, TypeOK, LockInv, CriticalLabel
  <2>4. PresentInv'
    BY <1>13, <2>0 DEF ExchangeFirst, Goto, TypeOK, PresentInv, CallInv
  <2>5. CallInv'
    BY <1>13, <2>0 DEF ExchangeFirst, Goto, TypeOK, LockInv, PresentInv,
       CallInv, CriticalLabel
  <2> QED
    BY <2>1, <2>2, <2>3, <2>4, <2>5 DEF IInv
<1>14. ASSUME NEW t \in Thread, ExchangeSecond(t)
      PROVE  IInv'
  <2>0. pc[t] # "idle" /\ frame[t] \in Frame /\ frame[t].op \in EntryPoint
        /\ frame[t].m \in Method /\ frame[t].n \in Method
        /\ frame[t].imp \in Imp \cup {NoImp}
        /\ frame[t].res \in Imp \cup {NoImp}
    BY <1>14, FrameType DEF ExchangeSecond
  <2>1. TypeOK'
    BY <1>14, <2>0 DEF ExchangeSecond, Goto, TypeOK, Label, Frame, EntryPoint,
       CallInv
  <2>2. FrameInv'
    BY <1>14, <2>0 DEF ExchangeSecond, Goto, TypeOK, FrameInv, Frame, EntryPoint
  <2>3. LockInv'
    BY <1>14, <2>0 DEF ExchangeSecond, Goto, TypeOK, LockInv, CriticalLabel
  <2>4. PresentInv'
    BY <1>14, <2>0 DEF ExchangeSecond, Goto, TypeOK, PresentInv, CallInv
  <2>5. CallInv'
    BY <1>14, <2>0 DEF ExchangeSecond, Goto, TypeOK, LockInv, PresentInv,
       CallInv, CriticalLabel
  <2> QED
    BY <2>1, <2>2, <2>3, <2>4, <2>5 DEF IInv
<1>15. ASSUME NEW t \in Thread, InvalidateCaches(t)
      PROVE  IInv'
  <2>0. pc[t] # "idle" /\ frame[t] \in Frame /\ frame[t].op \in EntryPoint
        /\ frame[t].m \in Method /\ frame[t].n \in Method
        /\ frame[t].imp \in Imp \cup {NoImp}
        /\ frame[t].res \in Imp \cup {NoImp}
    BY <1>15, FrameType DEF InvalidateCaches
  <2>1. TypeOK'
    BY <1>15, <2>0 DEF InvalidateCaches, Goto, TypeOK, Label, Frame, EntryPoint
  <2>2. FrameInv'
    BY <1>15, <2>0 DEF InvalidateCaches, Goto, TypeOK, FrameInv, Frame,
       EntryPoint
  <2>3. LockInv'
    BY <1>15, <2>0 DEF InvalidateCaches, Goto, TypeOK, LockInv, CriticalLabel
  <2>4. PresentInv'
    BY <1>15, <2>0 DEF InvalidateCaches, Goto, TypeOK, PresentInv, CallInv
  <2>5. CallInv'
    BY <1>15, <2>0 DEF InvalidateCaches, Goto, TypeOK, LockInv, PresentInv,
       CallInv, CriticalLabel
  <2> QED
    BY <2>1, <2>2, <2>3, <2>4, <2>5 DEF IInv
<1>16. ASSUME NEW t \in Thread, Unlock(t)
      PROVE  IInv'
  <2>0. pc[t] # "idle" /\ frame[t] \in Frame /\ frame[t].op \in EntryPoint
        /\ frame[t].m \in Method /\ frame[t].n \in Method
        /\ frame[t].imp \in Imp \cup {NoImp}
        /\ frame[t].res \in Imp \cup {NoImp}
    BY <1>16, FrameType DEF Unlock
  <2>1. TypeOK'
    BY <1>16, <2>0 DEF Unlock, Goto, Return, TypeOK, Label, Frame, EntryPoint,
       CallInv, GivenBack
  <2>2. FrameInv'
    BY <1>16, <2>0 DEF Unlock, Goto, Return, TypeOK, FrameInv, Frame, EntryPoint
  <2>3. LockInv'
    BY <1>16, <2>0 DEF Unlock, Goto, Return, TypeOK, LockInv, CriticalLabel
  <2>4. PresentInv'
    BY <1>16, <2>0 DEF Unlock, Goto, Return, TypeOK, PresentInv, CallInv
  <2>5. CallInv'
    BY <1>16, <2>0 DEF Unlock, Goto, Return, TypeOK, LockInv, PresentInv,
       CallInv, CriticalLabel
  <2> QED
    BY <2>1, <2>2, <2>3, <2>4, <2>5 DEF IInv
<1>17. ASSUME NEW t \in Thread, Lookup(t)
      PROVE  IInv'
  <2>0. pc[t] # "idle" /\ frame[t] \in Frame /\ frame[t].op \in EntryPoint
        /\ frame[t].m \in Method /\ frame[t].n \in Method
        /\ frame[t].imp \in Imp \cup {NoImp}
        /\ frame[t].res \in Imp \cup {NoImp}
    BY <1>17, FrameType DEF Lookup
  <2>a. Answer(frame[t].m) \in Imp \cup {Forward}
    <3>1. frame[t].m = <<frame[t].m[1], frame[t].m[2]>>
          /\ frame[t].m[1] \in Class /\ frame[t].m[2] \in Sel
      BY <2>0 DEF Method
    <3> QED
      BY <2>0, <3>1, SearchType DEF Answer, TypeOK
  <2>1. TypeOK'
    BY <1>17, <2>0, <2>a DEF Lookup, Goto, Return, TypeOK, Label, Frame,
       EntryPoint
  <2>2. FrameInv'
    BY <1>17, <2>0 DEF Lookup, Goto, Return, TypeOK, FrameInv, Frame, EntryPoint
  <2>3. LockInv'
    BY <1>17, <2>0 DEF Lookup, Goto, Return, TypeOK, LockInv, CriticalLabel
  <2>4. PresentInv'
    BY <1>17, <2>0 DEF Lookup, Goto, Return, TypeOK, PresentInv, CallInv
  <2>5. CallInv'
    BY <1>17, <2>0 DEF Lookup, Goto, Return, TypeOK, LockInv, PresentInv,
       CallInv, CriticalLabel
  <2> QED
    BY <2>1, <2>2, <2>3, <2>4, <2>5 DEF IInv
<1>18. CASE UNCHANGED vars
  BY <1>18 DEF vars, IInv, TypeOK, FrameInv, LockInv, PresentInv, CallInv
<1> QED
  BY <1>1, <1>2, <1>3, <1>4, <1>5, <1>6, <1>7, <1>8, <1>9,
     <1>10, <1>11, <1>12, <1>13, <1>14, <1>15, <1>16, <1>17, <1>18
  DEF Next, Begin, Critical

(* Every reachable state satisfies the inductive invariant.                *)
THEOREM Invariance == Spec => []IInv
  BY InitIInv, NextIInv, PTL DEF Spec

(* The variables keep their types, for every client of the five calls.     *)
THEOREM TypeCorrect == Spec => []TypeOK
<1>1. IInv => TypeOK
  BY DEF IInv
<1> QED
  BY <1>1, Invariance, PTL

(* However many threads add and replace the same method at the same time,  *)
(* no class ever has two methods for one selector.                         *)
THEOREM OneMethodTheorem == Spec => []OneMethod
<1>1. IInv => OneMethod
  BY DEF IInv, PresentInv, OneMethod
<1> QED
  BY <1>1, Invariance, PTL

-----------------------------------------------------------------------------
(* Coherence of the caches with the method lists.                          *)

(* A search does not see changes outside of the lineage.                   *)
LEMMA SearchUnchanged ==
  ASSUME NEW c \in Class, NEW s \in Sel,
         \A i \in DOMAIN Lineage[c] :
           imp'[<<Lineage[c][i], s>>] = imp[<<Lineage[c][i], s>>]
  PROVE  /\ Implementors(c, s)' = Implementors(c, s)
         /\ InstanceMethod(c, s)' = InstanceMethod(c, s)
         /\ Search(c, s)' = Search(c, s)
<1>1. Implementors(c, s)' = Implementors(c, s)
  BY DEF Implementors
<1>2. InstanceMethod(c, s)' = InstanceMethod(c, s)
  BY <1>1 DEF InstanceMethod
<1>3. ASSUME Implementors(c, s) # {}
      PROVE  imp'[InstanceMethod(c, s)] = imp[InstanceMethod(c, s)]
  <2>1. Lineage[c] \in Seq(Class)
    BY LineageAssumption
  <2>2. Implementors(c, s) \subseteq Nat
    BY <2>1 DEF Implementors
  <2>3. Min(Implementors(c, s)) \in Implementors(c, s)
    BY <1>3, <2>2, MinInSet
  <2> QED
    BY <2>3 DEF Implementors, InstanceMethod
<1> QED
  BY <1>1, <1>2, <1>3 DEF Search

(* Rewriting a method in place does not move what a search finds, and      *)
(* changes its answer only where the rewritten method is the one found.    *)
LEMMA SearchRewritten ==
  ASSUME TypeOK, NEW c \in Class, NEW s \in Sel, NEW m \in Method, NEW i \in Imp,
         imp[m] # NoImp, imp' = [imp EXCEPT ![m] = i]
  PROVE  /\ Implementors(c, s)' = Implementors(c, s)
         /\ InstanceMethod(c, s)' = InstanceMethod(c, s)
         /\ \/ Search(c, s)' = Search(c, s)
            \/ Implementors(c, s) # {} /\ InstanceMethod(c, s) = m
<1>1. \A k \in DOMAIN Lineage[c] : <<Lineage[c][k], s>> \in Method
  BY LineageAssumption DEF Method
<1>2. Implementors(c, s)' = Implementors(c, s)
  BY <1>1, SentinelAssumption DEF Implementors, TypeOK
<1>3. InstanceMethod(c, s)' = InstanceMethod(c, s)
  BY <1>2 DEF InstanceMethod
<1>4. ASSUME Implementors(c, s) # {}, InstanceMethod(c, s) # m
      PROVE  Search(c, s)' = Search(c, s)
  BY <1>2, <1>3, <1>4, SearchType DEF Search, TypeOK
<1> QED
  BY <1>2, <1>3, <1>4 DEF Search

(* The same for the entries of the caches, which an in-place rewrite keeps. *)
LEMMA CoherentRewritten ==
  ASSUME TypeOK, CoherentUnlessRewritten, NEW m \in Method, NEW i \in Imp,
         imp[m] # NoImp, imp' = [imp EXCEPT ![m] = i],
         dirty' = dirty \cup {m}, cache' = cache
  PROVE  CoherentUnlessRewritten'
  BY SearchRewritten DEF CoherentUnlessRewritten

(* A step that changes no implementation, no cache and no mark keeps the   *)
(* caches coherent.                                                        *)
LEMMA CoherentUnchanged ==
  ASSUME CoherentUnlessRewritten, imp' = imp, dirty' = dirty, cache' = cache
  PROVE  CoherentUnlessRewritten'
  BY DEF CoherentUnlessRewritten, Implementors, InstanceMethod, Search

(* A new method is found only by searches whose cache entries its addition *)
(* has emptied.                                                            *)
LEMMA CoherentAddList ==
  ASSUME IInv, CoherentUnlessRewritten, NEW t \in Thread, AddList(t)
  PROVE  CoherentUnlessRewritten'
<1> DEFINE m == frame[t].m
<1>1. m \in Method /\ pc[t] = "addList"
  BY FrameType DEF AddList, IInv
<1>2. SUFFICES ASSUME NEW c \in Class, NEW s \in Sel
               PROVE  \/ cache'[<<c, s>>] \in {NotCached, Search(c, s)'}
                      \/ /\ Implementors(c, s)' # {}
                         /\ InstanceMethod(c, s)' \in dirty'
  BY DEF CoherentUnlessRewritten
<1>3. <<c, s>> \in Method /\ m = <<m[1], m[2]>> /\ m[1] \in Class
  BY <1>1 DEF Method
<1>4. CASE c \in Below(m[1])
  BY <1>3, <1>4 DEF AddList
<1>5. CASE c \notin Below(m[1])
  <2>1. \A i \in DOMAIN Lineage[c] : <<Lineage[c][i], s>> # m
    BY <1>3, <1>5 DEF Below
  <2>2. \A i \in DOMAIN Lineage[c] :
          imp'[<<Lineage[c][i], s>>] = imp[<<Lineage[c][i], s>>]
    <3>1. imp' = [imp EXCEPT ![m] = frame[t].imp]
      BY DEF AddList
    <3>2. imp \in [Method -> Imp \cup {NoImp}]
      BY DEF IInv, TypeOK
    <3>3. \A i \in DOMAIN Lineage[c] : <<Lineage[c][i], s>> \in Method
      BY LineageAssumption DEF Method
    <3> QED
      BY <2>1, <3>1, <3>2, <3>3
  <2>3. cache'[<<c, s>>] = cache[<<c, s>>] /\ dirty' = dirty
    BY <1>3, <1>5 DEF AddList
  <2> QED
    BY <2>2, <2>3, SearchUnchanged DEF CoherentUnlessRewritten
<1> QED
  BY <1>4, <1>5

(* A lookup that fills a cache entry fills it with what a search answers.  *)
LEMMA CoherentLookup ==
  ASSUME IInv, CoherentUnlessRewritten, NEW t \in Thread, Lookup(t)
  PROVE  CoherentUnlessRewritten'
<1> DEFINE m == frame[t].m
<1>1. /\ m \in Method
      /\ imp' = imp /\ dirty' = dirty
      /\ cache' = [cache EXCEPT ![m] = Answer(m)]
  BY FrameType DEF Lookup, IInv, dispatch
<1>2. SUFFICES ASSUME NEW c \in Class, NEW s \in Sel
               PROVE  \/ cache'[<<c, s>>] \in {NotCached, Search(c, s)}
                      \/ /\ Implementors(c, s) # {}
                         /\ InstanceMethod(c, s) \in dirty
  BY <1>1 DEF CoherentUnlessRewritten, Implementors, InstanceMethod, Search
<1>3. <<c, s>> \in Method
  BY DEF Method
<1>4. CASE m = <<c, s>>
  BY <1>1, <1>3, <1>4 DEF IInv, TypeOK, Answer, CoherentUnlessRewritten
<1>5. CASE m # <<c, s>>
  BY <1>1, <1>3, <1>5 DEF IInv, TypeOK, CoherentUnlessRewritten
<1> QED
  BY <1>4, <1>5

(* Whatever the client calls, a cached implementation is out of date only  *)
(* where a method was rewritten in place (by class_replaceMethod,          *)
(* method_setImplementation or an unfinished exchange).                    *)
THEOREM CoherenceTheorem == Spec => []CoherentUnlessRewritten
<1>1. Init => CoherentUnlessRewritten
  BY DEF Init, CoherentUnlessRewritten, Method
<1>2. IInv /\ CoherentUnlessRewritten /\ [Next]_vars => CoherentUnlessRewritten'
  <2> SUFFICES ASSUME IInv, CoherentUnlessRewritten, [Next]_vars
               PROVE  CoherentUnlessRewritten'
    OBVIOUS
  <2>1. CASE UNCHANGED <<imp, dirty, cache>>
    BY <2>1, CoherentUnchanged
  <2>2. ASSUME NEW t \in Thread, SetFound(t)
        PROVE  CoherentUnlessRewritten'
    <3>1. frame[t].m \in Method
      BY <2>2, FrameType DEF SetFound, IInv
    <3>2. frame[t].imp \in Imp /\ imp[frame[t].m] # NoImp
      BY <2>2, <3>1 DEF SetFound, IInv, CallInv, PresentInv
    <3> QED
      BY <2>2, <3>1, <3>2, CoherentRewritten DEF SetFound, IInv
  <2>3. ASSUME NEW t \in Thread, NEW m \in Method, NEW i \in Imp,
               SetImplementation(t, m, i)
        PROVE  CoherentUnlessRewritten'
    <3>1. imp[m] # NoImp
      BY <2>3 DEF SetImplementation, IInv, PresentInv
    <3> QED
      BY <2>3, <3>1, CoherentRewritten DEF SetImplementation, IInv
  <2>4. ASSUME NEW t \in Thread, ExchangeFirst(t)
        PROVE  CoherentUnlessRewritten'
    <3>1. frame[t].m \in Method
      BY <2>4, FrameType DEF ExchangeFirst, IInv
    <3>2. frame[t].imp \in Imp /\ imp[frame[t].m] # NoImp
      BY <2>4, <3>1 DEF ExchangeFirst, IInv, CallInv, PresentInv
    <3> QED
      BY <2>4, <3>1, <3>2, CoherentRewritten DEF ExchangeFirst, IInv
  <2>5. ASSUME NEW t \in Thread, ExchangeSecond(t)
        PROVE  CoherentUnlessRewritten'
    <3>1. frame[t].n \in Method
      BY <2>5, FrameType DEF ExchangeSecond, IInv
    <3>2. frame[t].res \in Imp /\ imp[frame[t].n] # NoImp
      BY <2>5, <3>1 DEF ExchangeSecond, IInv, CallInv, PresentInv
    <3> QED
      BY <2>5, <3>1, <3>2, CoherentRewritten DEF ExchangeSecond, IInv
  <2>6. ASSUME NEW t \in Thread, InvalidateCaches(t)
        PROVE  CoherentUnlessRewritten'
    BY <2>6 DEF InvalidateCaches, CoherentUnlessRewritten, Method
  <2> QED
    BY <2>1, <2>2, <2>3, <2>4, <2>5, <2>6, CoherentAddList, CoherentLookup
    DEF Next, Begin, Critical, vars, dispatch, RegisterSelector, BeginReplace,
        UnknownSelector, BeginExchange, GetMethodImplementation, AcquireLock,
        LookupMethodFound, LookupMethodAbsent, ExchangeRead, Unlock
<1> QED
  BY <1>1, <1>2, Invariance, PTL DEF Spec

-----------------------------------------------------------------------------
(* Without method_setImplementation: what the owner of the lock has read   *)
(* is still so when it writes.                                             *)

(* What a thread in a call knows of the methods it is about.               *)
ReadAt(t) ==
  LET f == frame[t] IN
  /\ pc[t] \in {"lock", "lookupMethod", "setFound", "addList", "unlock"} =>
       f.op \in {"addMethod", "replaceMethod", "exchange"}
  /\ pc[t] = "setFound" => f.op = "replaceMethod" /\ f.res = imp[f.m]
  /\ pc[t] \in {"lock", "lookupMethod", "addList"} => f.res = NoImp
  /\ pc[t] = "lock" /\ f.op = "exchange" => f.imp = NoImp
  /\ pc[t] = "exchangeFirst" => f.res = imp[f.m] /\ f.imp = imp[f.n]
  /\ pc[t] = "exchangeSecond" =>
       /\ f.imp = imp[f.m]
       /\ f.imp = IF f.m = f.n THEN f.res ELSE imp[f.n]

ReadInv == \A t \in Thread : ReadAt(t)

(* Another thread's step that writes no implementation, or that writes one *)
(* while it owns the lock, leaves what a thread knows true.                *)
LEMMA ReadKept ==
  ASSUME LockInv, NEW t \in Thread, NEW u \in Thread, u # t, ReadAt(u),
         pc'[u] = pc[u], frame'[u] = frame[u],
         imp' = imp \/ pc[t] \in CriticalLabel
  PROVE  ReadAt(u)'
<1>1. CASE imp' = imp
  BY <1>1 DEF ReadAt
<1>2. CASE pc[t] \in CriticalLabel
  <2>1. pc[u] \notin CriticalLabel
    BY <1>2 DEF LockInv
  <2> QED
    BY <2>1 DEF ReadAt, CriticalLabel
<1> QED
  BY <1>1, <1>2

(* A step of thread t: only what t knows is to be shown.                   *)
LEMMA ReadStep ==
  ASSUME IInv, ReadInv, NEW t \in Thread, NEW label, NEW f,
         pc' = [pc EXCEPT ![t] = label], frame' = [frame EXCEPT ![t] = f],
         imp' = imp \/ pc[t] \in CriticalLabel,
         ReadAt(t)'
  PROVE  ReadInv'
<1> SUFFICES ASSUME NEW u \in Thread, u # t
             PROVE  ReadAt(u)'
  BY DEF ReadInv
<1>1. pc'[u] = pc[u] /\ frame'[u] = frame[u]
  BY DEF IInv, TypeOK
<1> QED
  BY <1>1, ReadKept DEF IInv, ReadInv

LEMMA ReadInvariance ==
  ASSUME "setImplementation" \notin Calls
  PROVE  Spec => [](IInv /\ ReadInv)
<1>1. Init => ReadInv
  BY DEF Init, ReadInv, ReadAt
<1>2. IInv /\ ReadInv /\ [Next]_vars => ReadInv'
  <2> SUFFICES ASSUME IInv, ReadInv, [Next]_vars
               PROVE  ReadInv'
    OBVIOUS
  <2> USE DEF dispatch, history
  <2>0. /\ DOMAIN pc = Thread /\ DOMAIN frame = Thread
        /\ DOMAIN imp = Method
        /\ \A t \in Thread : ReadAt(t)
        /\ \A t \in Thread : frame[t] = [frame EXCEPT ![t] = frame[t]][t]
        /\ \A t \in Thread : frame = [frame EXCEPT ![t] = frame[t]]
    BY DEF IInv, TypeOK, ReadInv
  <2>1. CASE UNCHANGED <<imp, pc, frame>>
    BY <2>1 DEF ReadInv, ReadAt
  <2>2. ASSUME NEW t \in Thread, NEW op \in Calls, NEW m \in Method,
               NEW i \in Imp, BeginReplace(t, op, m, i)
        PROVE  ReadInv'
    <3>1. ReadAt(t)'
      BY <2>0, <2>2 DEF BeginReplace, Goto, Call, ReadAt
    <3> QED
      BY <2>2, <3>1, ReadStep DEF BeginReplace, Goto
  <2>3. ASSUME NEW t \in Thread, NEW m \in Method, NEW n \in Method,
               BeginExchange(t, m, n)
        PROVE  ReadInv'
    <3>1. ReadAt(t)'
      BY <2>0, <2>3 DEF BeginExchange, Goto, Call, ReadAt
    <3> QED
      BY <2>3, <3>1, ReadStep DEF BeginExchange, Goto
  <2>4. ASSUME NEW t \in Thread, NEW m \in Method,
               GetMethodImplementation(t, m)
        PROVE  ReadInv'
    <3>1. ReadAt(t)'
      BY <2>0, <2>4 DEF GetMethodImplementation, Goto, Call, ReadAt
    <3> QED
      BY <2>4, <3>1, ReadStep DEF GetMethodImplementation, Goto
  <2>5. ASSUME NEW t \in Thread, AcquireLock(t)
        PROVE  ReadInv'
    <3>1. ReadAt(t)'
      BY <2>0, <2>5 DEF AcquireLock, Goto, ReadAt
    <3> QED
      BY <2>0, <2>5, <3>1, ReadStep DEF AcquireLock, Goto
  <2>6. ASSUME NEW t \in Thread, LookupMethodFound(t)
        PROVE  ReadInv'
    <3>1. /\ pc' = [pc EXCEPT ![t] = IF frame[t].op = "replaceMethod"
                                     THEN "setFound" ELSE "unlock"]
          /\ frame' = [frame EXCEPT ![t] = [frame[t] EXCEPT !.res = imp[frame[t].m]]]
          /\ imp' = imp
          /\ pc[t] = "lookupMethod" /\ frame[t] \in Frame
      BY <2>6 DEF LookupMethodFound, Goto, IInv, FrameInv
    <3>2. ReadAt(t)'
      BY <2>0, <3>1 DEF ReadAt, Frame
    <3> QED
      BY <3>1, <3>2, ReadStep
  <2>7. ASSUME NEW t \in Thread, LookupMethodAbsent(t)
        PROVE  ReadInv'
    <3>1. ReadAt(t)'
      BY <2>0, <2>7 DEF LookupMethodAbsent, Goto, ReadAt
    <3> QED
      BY <2>0, <2>7, <3>1, ReadStep DEF LookupMethodAbsent, Goto
  <2>8. ASSUME NEW t \in Thread, SetFound(t)
        PROVE  ReadInv'
    <3>1. ReadAt(t)'
      BY <2>0, <2>8 DEF SetFound, Goto, ReadAt
    <3> QED
      BY <2>0, <2>8, <3>1, ReadStep DEF SetFound, Goto, CriticalLabel
  <2>9. ASSUME NEW t \in Thread, AddList(t)
        PROVE  ReadInv'
    <3>1. ReadAt(t)'
      BY <2>0, <2>9 DEF AddList, Goto, ReadAt
    <3> QED
      BY <2>0, <2>9, <3>1, ReadStep DEF AddList, Goto, CriticalLabel
  <2>10. ASSUME NEW t \in Thread, ExchangeRead(t)
         PROVE  ReadInv'
    <3>1. /\ pc' = [pc EXCEPT ![t] = "exchangeFirst"]
          /\ frame' = [frame EXCEPT ![t] =
                         [frame[t] EXCEPT !.imp = imp[frame[t].n],
                                          !.res = imp[frame[t].m]]]
          /\ imp' = imp
          /\ pc[t] = "exchangeRead" /\ frame[t] \in Frame
      BY <2>10 DEF ExchangeRead, Goto, IInv, FrameInv
    <3>2. ReadAt(t)'
      BY <2>0, <3>1 DEF ReadAt, Frame
    <3> QED
      BY <3>1, <3>2, ReadStep
  <2>11. ASSUME NEW t \in Thread, ExchangeFirst(t)
         PROVE  ReadInv'
    <3>1. frame[t].m \in Method /\ frame[t].n \in Method
      BY <2>11, FrameType DEF ExchangeFirst, IInv
    <3>2. /\ pc'[t] = "exchangeSecond" /\ frame'[t] = frame[t]
          /\ imp'[frame[t].m] = frame[t].imp
          /\ frame[t].m # frame[t].n => imp'[frame[t].n] = imp[frame[t].n]
          /\ frame[t].res = imp[frame[t].m] /\ frame[t].imp = imp[frame[t].n]
      BY <2>0, <2>11, <3>1 DEF ExchangeFirst, Goto, ReadAt
    <3>3. ReadAt(t)'
      BY <3>2 DEF ReadAt
    <3> QED
      BY <2>0, <2>11, <3>3, ReadStep DEF ExchangeFirst, Goto, CriticalLabel
  <2>12. ASSUME NEW t \in Thread, ExchangeSecond(t)
         PROVE  ReadInv'
    <3>1. ReadAt(t)'
      BY <2>0, <2>12 DEF ExchangeSecond, Goto, ReadAt
    <3> QED
      BY <2>0, <2>12, <3>1, ReadStep DEF ExchangeSecond, Goto, CriticalLabel
  <2>13. ASSUME NEW t \in Thread, InvalidateCaches(t)
         PROVE  ReadInv'
    <3>1. frame[t].op = "exchange"
      BY <2>13 DEF InvalidateCaches, IInv, CallInv
    <3>2. ReadAt(t)'
      BY <2>0, <2>13, <3>1 DEF InvalidateCaches, Goto, ReadAt
    <3> QED
      BY <2>0, <2>13, <3>2, ReadStep DEF InvalidateCaches, Goto
  <2>14. ASSUME NEW t \in Thread, Unlock(t) \/ Lookup(t)
         PROVE  ReadInv'
    <3>1. ReadAt(t)'
      BY <2>0, <2>14 DEF Unlock, Lookup, Return, Goto, ReadAt
    <3> QED
      BY <2>14, <3>1, ReadStep DEF Unlock, Lookup, Return, Goto
  <2> QED
    BY <2>1, <2>2, <2>3, <2>4, <2>5, <2>6, <2>7, <2>8, <2>9, <2>10, <2>11,
       <2>12, <2>13, <2>14
    DEF Next, Begin, Critical, vars, RegisterSelector, UnknownSelector,
        SetImplementation
<1> QED
  BY <1>1, <1>2, Invariance, PTL DEF Spec

(* What class_replaceMethod returns is the implementation its write        *)
(* displaces, for every number of threads that add, replace and exchange.  *)
THEOREM ReplaceReturns == Spec => ReplaceReturnsOld
<1>1. CASE "setImplementation" \in Calls
  <2>1. [\A t \in Thread :
           ("setImplementation" \notin Calls /\ SetFound(t))
             => frame[t].res = imp[frame[t].m]]_vars
    BY <1>1
  <2> QED
    BY <2>1, PTL DEF ReplaceReturnsOld
<1>2. CASE "setImplementation" \notin Calls
  <2>1. ReadInv =>
          \A t \in Thread : ("setImplementation" \notin Calls /\ SetFound(t))
                             => frame[t].res = imp[frame[t].m]
    BY DEF ReadInv, ReadAt, SetFound
  <2> QED
    BY <1>2, <2>1, ReadInvariance, PTL DEF ReplaceReturnsOld
<1> QED
  BY <1>1, <1>2

-----------------------------------------------------------------------------
(* The table that the owners of the lock keep for each other, step by step. *)

(* Nothing but SetFound, AddList and ExchangeSecond changes the table; an  *)
(* exchange's first write does not.                                        *)
LEMMA TableKept ==
  ASSUME IInv, ReadInv, NEW t \in Thread,
         \/ imp' = imp /\ lock' = lock /\ pc[t] \notin CriticalLabel
         \/ AcquireLock(t) \/ LookupMethodFound(t) \/ LookupMethodAbsent(t)
         \/ ExchangeRead(t) \/ ExchangeFirst(t) \/ InvalidateCaches(t)
         \/ Unlock(t),
         \A u \in Thread : u # t => pc'[u] = pc[u] /\ frame'[u] = frame[u]
  PROVE  Table' = Table
<1> USE SentinelAssumption DEF dispatch, history
<1>1. /\ DOMAIN pc = Thread /\ DOMAIN frame = Thread
      /\ imp \in [Method -> Imp \cup {NoImp}]
      /\ lock \in Thread \cup {NoThread}
      /\ LockInv /\ ReadAt(t)
  BY DEF IInv, TypeOK, ReadInv
<1>2. CASE imp' = imp /\ lock' = lock /\ pc[t] \notin CriticalLabel
  <2>1. lock # t
    BY <1>1, <1>2 DEF LockInv
  <2>2. lock # NoThread => pc'[lock] = pc[lock] /\ frame'[lock] = frame[lock]
    BY <1>1, <2>1
  <2> QED
    BY <1>2, <2>2 DEF Table
<1>3. CASE AcquireLock(t)
  <2>1. lock = NoThread /\ lock' = t /\ imp' = imp /\ pc'[t] # "exchangeSecond"
    BY <1>1, <1>3 DEF AcquireLock, Goto
  <2> QED
    BY <2>1 DEF Table
<1>4. CASE \/ LookupMethodFound(t) \/ LookupMethodAbsent(t)
           \/ ExchangeRead(t) \/ InvalidateCaches(t)
  <2>1. /\ lock = t /\ lock' = lock /\ imp' = imp
        /\ pc[t] # "exchangeSecond" /\ pc'[t] # "exchangeSecond"
    BY <1>1, <1>4 DEF LookupMethodFound, LookupMethodAbsent, ExchangeRead,
       InvalidateCaches, Goto, LockInv, CriticalLabel
  <2> QED
    BY <2>1 DEF Table
<1>5. CASE Unlock(t)
  <2>1. lock = t /\ lock' = NoThread /\ imp' = imp /\ pc[t] # "exchangeSecond"
    BY <1>1, <1>5 DEF Unlock, LockInv, CriticalLabel
  <2> QED
    BY <2>1 DEF Table
<1>6. CASE ExchangeFirst(t)
  <2>1. /\ lock = t /\ lock' = t /\ lock # NoThread
        /\ pc[t] # "exchangeSecond" /\ pc'[t] = "exchangeSecond"
        /\ frame'[t] = frame[t]
        /\ frame[t].res = imp[frame[t].m]
        /\ imp' = [imp EXCEPT ![frame[t].m] = frame[t].imp]
    BY <1>1, <1>6 DEF ExchangeFirst, Goto, LockInv, CriticalLabel, ReadAt
  <2>2. \A m \in Method : (IF frame[t].m = m THEN frame[t].res ELSE imp'[m]) = imp[m]
    BY <1>1, <2>1
  <2> QED
    BY <2>1, <2>2 DEF Table
<1> QED
  BY <1>2, <1>3, <1>4, <1>5, <1>6

(* An addition and a rewrite happen in the step that writes the method.    *)
LEMMA TableInstalled ==
  ASSUME IInv, ReadInv, NEW t \in Thread, SetFound(t) \/ AddList(t)
  PROVE  /\ frame[t].m \in Method /\ frame[t].imp \in Imp
         /\ Table[frame[t].m] = frame[t].res
         /\ AddList(t) <=> frame[t].res = NoImp
         /\ frame[t].res \in Imp \cup {NoImp}
         /\ Table' = [Table EXCEPT ![frame[t].m] = frame[t].imp]
<1> USE SentinelAssumption DEF dispatch, history
<1>1. /\ DOMAIN pc = Thread
      /\ imp \in [Method -> Imp \cup {NoImp}]
      /\ LockInv /\ ReadAt(t) /\ PresentInv
  BY DEF IInv, TypeOK, ReadInv
<1>2. /\ frame[t].m \in Method /\ frame[t].imp \in Imp
      /\ frame[t].res \in Imp \cup {NoImp}
  BY FrameType DEF SetFound, AddList, IInv, CallInv
<1>3. /\ lock = t /\ lock' = t
      /\ pc[t] # "exchangeSecond" /\ pc'[t] # "exchangeSecond"
      /\ imp' = [imp EXCEPT ![frame[t].m] = frame[t].imp]
  BY <1>1 DEF SetFound, AddList, Goto, LockInv, CriticalLabel
<1>4. Table = imp /\ Table' = imp'
  <2>1. imp' \in [Method -> Imp \cup {NoImp}]
    BY <1>1, <1>2, <1>3
  <2>2. Table = [m \in Method |-> imp[m]] /\ Table' = [m \in Method |-> imp'[m]]
    BY <1>3 DEF Table
  <2> QED
    BY <1>1, <2>1, <2>2
<1>5. ASSUME SetFound(t)
      PROVE  /\ imp[frame[t].m] = frame[t].res /\ frame[t].res # NoImp
             /\ ~AddList(t)
  BY <1>1, <1>2, <1>5 DEF SetFound, AddList, ReadAt, IInv, CallInv, PresentInv
<1>6. ASSUME AddList(t)
      PROVE  imp[frame[t].m] = frame[t].res /\ frame[t].res = NoImp
  BY <1>1, <1>2, <1>6 DEF AddList, ReadAt, IInv, CallInv, PresentInv
<1> QED
  BY <1>2, <1>3, <1>4, <1>5, <1>6

(* An exchange happens in the step that writes the second method.          *)
LEMMA TableSwapped ==
  ASSUME IInv, ReadInv, NEW t \in Thread, ExchangeSecond(t)
  PROVE  /\ frame[t].m \in Method /\ frame[t].n \in Method
         /\ Table[frame[t].m] \in Imp /\ Table[frame[t].n] \in Imp
         /\ Table' = [Table EXCEPT ![frame[t].m] = Table[frame[t].n],
                                   ![frame[t].n] = Table[frame[t].m]]
<1> USE SentinelAssumption DEF dispatch, history
<1>1. /\ DOMAIN pc = Thread
      /\ imp \in [Method -> Imp \cup {NoImp}]
      /\ LockInv /\ ReadAt(t)
  BY DEF IInv, TypeOK, ReadInv
<1>2. /\ frame[t].m \in Method /\ frame[t].n \in Method
      /\ frame[t].imp \in Imp /\ frame[t].res \in Imp
  BY FrameType DEF ExchangeSecond, IInv, CallInv
<1>3. /\ lock = t /\ lock' = t /\ t # NoThread
      /\ pc[t] = "exchangeSecond" /\ pc'[t] = "invalidate"
      /\ imp' = [imp EXCEPT ![frame[t].n] = frame[t].res]
      /\ frame[t].imp = imp[frame[t].m]
      /\ frame[t].imp = IF frame[t].m = frame[t].n
                         THEN frame[t].res ELSE imp[frame[t].n]
  BY <1>1 DEF ExchangeSecond, Goto, LockInv, CriticalLabel, ReadAt
<1>4. Table = [imp EXCEPT ![frame[t].m] = frame[t].res]
  <2>1. Table = [x \in Method |-> IF frame[t].m = x THEN frame[t].res ELSE imp[x]]
    BY <1>3 DEF Table
  <2> QED
    BY <1>1, <1>2, <2>1
<1>5. Table' = imp'
  <2>1. Table' = [x \in Method |-> imp'[x]]
    BY <1>3 DEF Table
  <2> QED
    BY <1>1, <1>3, <2>1
<1>6. /\ Table[frame[t].m] = frame[t].res
      /\ Table[frame[t].n] = IF frame[t].m = frame[t].n THEN frame[t].res
                                                       ELSE frame[t].imp
  BY <1>1, <1>2, <1>3, <1>4
<1>7. \A x \in Method :
        imp'[x] = [Table EXCEPT ![frame[t].m] = Table[frame[t].n],
                               ![frame[t].n] = Table[frame[t].m]][x]
  BY <1>1, <1>2, <1>3, <1>4, <1>6
<1>8. imp' = [Table EXCEPT ![frame[t].m] = Table[frame[t].n],
                          ![frame[t].n] = Table[frame[t].m]]
  BY <1>1, <1>2, <1>3, <1>4, <1>7
<1> QED
  BY <1>2, <1>5, <1>6, <1>8

(* Which steps leave the table alone, over all threads: a case split for   *)
(* the refinement.                                                         *)
LEMMA TableStep ==
  ASSUME "setImplementation" \notin Calls, IInv, ReadInv, [Next]_vars
  PROVE  \/ Table' = Table
         \/ \E t \in Thread : SetFound(t) \/ AddList(t) \/ ExchangeSecond(t)
<1> USE DEF dispatch, history
<1>1. DOMAIN pc = Thread /\ DOMAIN frame = Thread
  BY DEF IInv, TypeOK
<1>2. CASE UNCHANGED <<imp, lock, pc, frame>>
  BY <1>2 DEF Table
<1>3. ASSUME NEW t \in Thread, Begin(t) \/ AcquireLock(t) \/ Lookup(t)
      PROVE  Table' = Table
  <2>1. \A u \in Thread : u # t => pc'[u] = pc[u] /\ frame'[u] = frame[u]
    BY <1>1, <1>3 DEF Begin, BeginReplace, UnknownSelector, SetImplementation,
       BeginExchange, GetMethodImplementation, AcquireLock, Lookup, Return, Goto
  <2>2. \/ imp' = imp /\ lock' = lock /\ pc[t] \notin CriticalLabel
        \/ AcquireLock(t)
    BY <1>3 DEF Begin, BeginReplace, UnknownSelector, SetImplementation,
       BeginExchange, GetMethodImplementation, Lookup, CriticalLabel
  <2> QED
    BY <2>1, <2>2, TableKept
<1>4. ASSUME NEW t \in Thread,
             \/ LookupMethodFound(t) \/ LookupMethodAbsent(t) \/ ExchangeRead(t)
             \/ ExchangeFirst(t) \/ InvalidateCaches(t) \/ Unlock(t)
      PROVE  Table' = Table
  <2>1. \A u \in Thread : u # t => pc'[u] = pc[u] /\ frame'[u] = frame[u]
    BY <1>1, <1>4 DEF LookupMethodFound, LookupMethodAbsent, ExchangeRead,
       ExchangeFirst, InvalidateCaches, Unlock, Return, Goto
  <2> QED
    BY <1>4, <2>1, TableKept
<1> QED
  BY <1>2, <1>3, <1>4 DEF Next, Critical, RegisterSelector, vars

(* Without method_setImplementation, adding, replacing and exchanging are  *)
(* atomic for each other: every behaviour of the calls that take the lock  *)
(* is one of AtomicDispatch, each of whose operations is one step.         *)
THEOREM Atomicity ==
  ASSUME "setImplementation" \notin Calls
  PROVE  Spec => AtomicForLocked
<1>1. Init => Atomic!Init
  <2> SUFFICES ASSUME Init
               PROVE  Table = Defined
    BY DEF Atomic!Init
  <2>1. Table = [m \in Method |-> Defined[m]]
    BY DEF Init, Table
  <2> QED
    BY <2>1, DefinedAssumption
<1>2. IInv /\ ReadInv /\ [Next]_vars => [Atomic!Next]_Table
  <2> SUFFICES ASSUME IInv, ReadInv, [Next]_vars
               PROVE  Atomic!Next \/ Table' = Table
    OBVIOUS
  <2>1. ASSUME NEW t \in Thread, SetFound(t) \/ AddList(t)
        PROVE  Atomic!Next
    <3>1. \/ Atomic!Add(frame[t].m, frame[t].imp)
          \/ Atomic!Replace(frame[t].m, frame[t].imp)
      BY <2>1, TableInstalled DEF Atomic!Add, Atomic!Replace
    <3> QED
      BY <2>1, <3>1, TableInstalled DEF Atomic!Next
  <2>2. ASSUME NEW t \in Thread, ExchangeSecond(t)
        PROVE  Atomic!Next
    <3>1. Atomic!Exchange(frame[t].m, frame[t].n)
      BY <2>2, TableSwapped, SentinelAssumption DEF Atomic!Exchange
    <3> QED
      BY <2>2, <3>1, TableSwapped DEF Atomic!Next
  <2> QED
    BY <2>1, <2>2, TableStep
<1> QED
  BY <1>1, <1>2, ReadInvariance, PTL DEF Spec, AtomicForLocked, Atomic!Spec

-----------------------------------------------------------------------------
(* Where implementations are.                                              *)

(* The implementation a thread in a call holds: the one it brought, until  *)
(* a method has it, and then the one it will hand back.                    *)
Held(t) ==
  LET f == frame[t] IN
  CASE pc[t] = "lock" -> {f.imp} \ {NoImp}
    [] pc[t] \in {"lookupMethod", "setFound", "addList"} -> {f.imp}
    [] pc[t] = "unlock" -> GivenBack(f)
    [] OTHER -> {}

Tabled == {Table[m] : m \in Method} \ {NoImp}

(* Every implementation ever brought is in exactly one place, also within  *)
(* the critical sections, of which Conservation does not speak.            *)
PlaceInv ==
  /\ \A i : i \in used <=>
       i \in Tabled \/ i \in handedBack \/ \E t \in Thread : i \in Held(t)
  /\ Tabled \cap handedBack = {}
  /\ \A t \in Thread : Held(t) \cap (Tabled \cup handedBack) = {}
  /\ \A t, u \in Thread : \A i : i \in Held(t) /\ i \in Held(u) => t = u
  /\ \A m, n \in Method : Table[m] = Table[n] => m = n \/ Table[m] = NoImp

(* A step of thread t that leaves the table alone: what t brings is new,   *)
(* and what t held or has brought it still holds or has handed back.       *)
LEMMA HandStep ==
  ASSUME PlaceInv, NEW t \in Thread, NEW brought,
         Table' = Table,
         \A u \in Thread : u # t => Held(u)' = Held(u),
         brought \cap used = {}, NoImp \notin brought,
         used' = used \cup brought,
         handedBack \subseteq handedBack',
         handedBack' \cup Held(t)' = handedBack \cup Held(t) \cup brought,
         handedBack' \cap Held(t)' = {}
  PROVE  PlaceInv'
<1>1. Tabled' = Tabled
  BY DEF Tabled
<1>2. \A i \in brought : /\ i \notin Tabled /\ i \notin handedBack
                        /\ \A u \in Thread : i \notin Held(u)
  BY DEF PlaceInv
<1>3. \A i : i \in used' <=>
        i \in Tabled' \/ i \in handedBack' \/ \E u \in Thread : i \in Held(u)'
  <2>1. \A i : i \in used <=>
          i \in Tabled \/ i \in handedBack \/ \E u \in Thread : i \in Held(u)
    BY DEF PlaceInv
  <2>2. \A i : i \in handedBack' \/ i \in Held(t)' <=>
          i \in handedBack \/ i \in Held(t) \/ i \in brought
    OBVIOUS
  <2>3. \A i : (\E u \in Thread : i \in Held(u)') <=>
          i \in Held(t)' \/ \E u \in Thread : u # t /\ i \in Held(u)
    OBVIOUS
  <2>4. \A i : (\E u \in Thread : i \in Held(u)) <=>
          i \in Held(t) \/ \E u \in Thread : u # t /\ i \in Held(u)
    OBVIOUS
  <2> QED
    BY <1>1, <2>1, <2>2, <2>3, <2>4
<1>4. Tabled' \cap handedBack' = {}
  <2>1. /\ Tabled \cap handedBack = {} /\ Tabled \cap Held(t) = {}
        /\ Tabled \cap brought = {}
    BY <1>2 DEF PlaceInv
  <2> QED
    BY <1>1, <2>1
<1>5. ASSUME NEW u \in Thread
      PROVE  Held(u)' \cap (Tabled' \cup handedBack') = {}
  <2>1. CASE u = t
    <3>1. Tabled \cap Held(t) = {} /\ Tabled \cap brought = {}
          /\ Tabled \cap handedBack = {}
      BY <1>2 DEF PlaceInv
    <3> QED
      BY <1>1, <2>1, <3>1
  <2>2. CASE u # t
    <3>1. /\ Held(u)' = Held(u) /\ Held(u) \cap (Tabled \cup handedBack) = {}
          /\ Held(u) \cap Held(t) = {} /\ Held(u) \cap brought = {}
      BY <1>2, <2>2 DEF PlaceInv
    <3> QED
      BY <1>1, <3>1
  <2> QED
    BY <2>1, <2>2
<1>6. ASSUME NEW u \in Thread, NEW v \in Thread, NEW i,
             i \in Held(u)', i \in Held(v)'
      PROVE  u = v
  <2>1. ASSUME NEW w \in Thread, w # t, i \in Held(w)', i \in Held(t)'
        PROVE  FALSE
    <3>1. /\ Held(w)' = Held(w) /\ Held(w) \cap handedBack = {}
          /\ Held(w) \cap Held(t) = {} /\ Held(w) \cap brought = {}
      BY <1>2, <2>1 DEF PlaceInv
    <3> QED
      BY <2>1, <3>1
  <2>2. CASE u # t /\ v # t
    BY <1>6, <2>2 DEF PlaceInv
  <2> QED
    BY <1>6, <2>1, <2>2
<1>7. \A m, n \in Method : Table'[m] = Table'[n] => m = n \/ Table'[m] = NoImp
  BY DEF PlaceInv
<1> QED
  BY <1>3, <1>4, <1>5, <1>6, <1>7 DEF PlaceInv

(* A step that installs what its thread holds, and holds instead what it   *)
(* displaced.                                                              *)
LEMMA InstallStep ==
  ASSUME PlaceInv, NEW t \in Thread, NEW m \in Method, NEW i \in Imp,
         DOMAIN Table = Method,
         Table' = [Table EXCEPT ![m] = i],
         \A u \in Thread : u # t => Held(u)' = Held(u),
         Held(t) = {i}, Held(t)' = {Table[m]} \ {NoImp},
         UNCHANGED <<used, handedBack>>
  PROVE  PlaceInv'
<1> DEFINE old == Table[m]
<1>1. /\ i # NoImp /\ i \notin Tabled /\ i \notin handedBack
      /\ \A u \in Thread : i \in Held(u) => u = t
  BY SentinelAssumption DEF PlaceInv
<1>2. \A n \in Method : Table'[n] = IF n = m THEN i ELSE Table[n]
  OBVIOUS
<1>3. \A n \in Method : n # m => Table[n] # old \/ Table[n] = NoImp
  BY DEF PlaceInv
<1>4. \A x : x \in Tabled' <=> x = i \/ (x \in Tabled /\ x # old)
  <2>1. \A x : x \in Tabled' <=> x # NoImp /\ \E n \in Method : x = Table'[n]
    BY DEF Tabled
  <2>2. \A x : x \in Tabled <=> x # NoImp /\ \E n \in Method : x = Table[n]
    BY DEF Tabled
  <2> QED
    BY <1>1, <1>2, <1>3, <2>1, <2>2
<1>5. old # NoImp => old \in Tabled
  BY DEF Tabled
<1>6. /\ old \in Tabled => old \notin handedBack
      /\ \A u \in Thread : old \in Tabled => old \notin Held(u)
  BY DEF PlaceInv
<1> HIDE DEF old
<1>7. Held(t)' = {old} \ {NoImp}
  BY DEF old
<1>8. NoImp \notin Tabled
  BY DEF Tabled
<1>9. \A x : x \in used' <=>
        x \in Tabled' \/ x \in handedBack' \/ \E u \in Thread : x \in Held(u)'
  <2>1. \A x : x \in used <=>
          x \in Tabled \/ x \in handedBack \/ \E u \in Thread : x \in Held(u)
    BY DEF PlaceInv
  <2>2. \A x : (\E u \in Thread : x \in Held(u)') <=>
          (x = old /\ x # NoImp) \/ \E u \in Thread : u # t /\ x \in Held(u)
    BY <1>7
  <2>3. \A x : (\E u \in Thread : x \in Held(u)) <=>
          x = i \/ \E u \in Thread : u # t /\ x \in Held(u)
    OBVIOUS
  <2> QED
    BY <1>4, <1>5, <1>8, <2>1, <2>2, <2>3
<1>10. Tabled' \cap handedBack' = {}
  BY <1>1, <1>4 DEF PlaceInv
<1>11. ASSUME NEW u \in Thread
       PROVE  Held(u)' \cap (Tabled' \cup handedBack') = {}
  <2>1. CASE u = t
    BY <1>1, <1>4, <1>5, <1>6, <1>7, <2>1
  <2>2. CASE u # t
    <3>1. /\ Held(u)' = Held(u) /\ i \notin Held(u)
          /\ Held(u) \cap (Tabled \cup handedBack) = {}
      BY <1>1, <2>2 DEF PlaceInv
    <3> QED
      BY <1>4, <3>1
  <2> QED
    BY <2>1, <2>2
<1>12. ASSUME NEW u \in Thread, NEW v \in Thread, NEW x,
              x \in Held(u)', x \in Held(v)'
       PROVE  u = v
  <2>1. CASE u # t /\ v # t
    BY <1>12, <2>1 DEF PlaceInv
  <2>2. ASSUME NEW w \in Thread, w # t, x \in Held(w)', x \in Held(t)'
        PROVE  FALSE
    BY <1>5, <1>6, <1>7, <2>2
  <2> QED
    BY <1>12, <2>1, <2>2
<1>13. \A k, n \in Method : Table'[k] = Table'[n] => k = n \/ Table'[k] = NoImp
  <2>1. \A n \in Method : Table[n] # i
    BY <1>1 DEF Tabled
  <2> QED
    BY <1>2, <2>1 DEF PlaceInv
<1> QED
  BY <1>9, <1>10, <1>11, <1>12, <1>13 DEF PlaceInv

(* A step that swaps two methods' implementations.                         *)
LEMMA SwapStep ==
  ASSUME PlaceInv, NEW m \in Method, NEW n \in Method,
         DOMAIN Table = Method,
         Table' = [Table EXCEPT ![m] = Table[n], ![n] = Table[m]],
         \A u \in Thread : Held(u)' = Held(u),
         UNCHANGED <<used, handedBack>>
  PROVE  PlaceInv'
<1>1. \A k \in Method : Table'[k] = Table[IF k = n THEN m
                                          ELSE IF k = m THEN n ELSE k]
  OBVIOUS
<1>2. Tabled' = Tabled
  <2>1. \A x : (\E k \in Method : x = Table'[k]) <=>
               (\E k \in Method : x = Table[k])
    BY <1>1
  <2> QED
    BY <2>1 DEF Tabled
<1>3. \A k, l \in Method : Table'[k] = Table'[l] => k = l \/ Table'[k] = NoImp
  BY <1>1 DEF PlaceInv
<1> QED
  BY <1>2, <1>3 DEF PlaceInv

LEMMA TableDomain == DOMAIN Table = Method
  BY DEF Table

LEMMA PlaceInit == Init => PlaceInv
<1> SUFFICES ASSUME Init
             PROVE  PlaceInv
  OBVIOUS
<1>1. Table = Defined
  <2>1. Table = [m \in Method |-> Defined[m]]
    BY DEF Init, Table
  <2> QED
    BY <2>1, DefinedAssumption
<1>2. \A t \in Thread : Held(t) = {}
  BY DEF Init, Held
<1>3. Tabled = used /\ handedBack = {}
  BY <1>1 DEF Init, Tabled
<1>4. \A m, n \in Method : Table[m] = Table[n] => m = n \/ Table[m] = NoImp
  BY <1>1, DefinedAssumption
<1> QED
  BY <1>2, <1>3, <1>4 DEF PlaceInv

(* Every step keeps every implementation in one place.                     *)
LEMMA PlaceNext ==
  ASSUME "setImplementation" \notin Calls, IInv, ReadInv, PlaceInv, [Next]_vars
  PROVE  PlaceInv'
<1> USE SentinelAssumption DEF dispatch, history
<1>1. /\ DOMAIN pc = Thread /\ DOMAIN frame = Thread
      /\ used \subseteq Imp /\ handedBack \subseteq Imp
      /\ \A t \in Thread : ReadAt(t)
  BY DEF IInv, TypeOK, ReadInv
<1>2. ASSUME NEW t \in Thread,
             \A u \in Thread : u # t => pc'[u] = pc[u] /\ frame'[u] = frame[u]
      PROVE  \A u \in Thread : u # t => Held(u)' = Held(u)
  BY <1>2 DEF Held, GivenBack
<1>3. \A t \in Thread : Held(t) \cap handedBack = {}
  BY DEF PlaceInv
<1>4. CASE UNCHANGED <<imp, lock, pc, frame, used, handedBack>>
  <2>1. Table' = Table /\ \A t \in Thread : Held(t)' = Held(t)
    BY <1>4 DEF Table, Held, GivenBack
  <2>2. Tabled' = Tabled
    BY <2>1 DEF Tabled
  <2> QED
    BY <1>4, <2>1, <2>2 DEF PlaceInv
<1>5. ASSUME NEW t \in Thread, NEW op \in Calls, NEW m \in Method,
             NEW i \in Imp, BeginReplace(t, op, m, i)
      PROVE  PlaceInv'
  <2>1. \A u \in Thread : u # t => pc'[u] = pc[u] /\ frame'[u] = frame[u]
    BY <1>1, <1>5 DEF BeginReplace, Goto
  <2>2. Table' = Table
    BY <1>5, <2>1, TableKept DEF BeginReplace, CriticalLabel
  <2>3. Held(t) = {} /\ Held(t)' = {i}
    BY <1>1, <1>5 DEF BeginReplace, Goto, Call, Held
  <2>4. /\ i \notin used /\ i # NoImp /\ i \notin handedBack
        /\ used' = used \cup {i} /\ handedBack' = handedBack
    <3>1. i \notin handedBack
      BY <1>5 DEF BeginReplace, PlaceInv
    <3> QED
      BY <1>5, <3>1 DEF BeginReplace
  <2> DEFINE b == {i}
  <2>5. /\ b \cap used = {} /\ NoImp \notin b /\ used' = used \cup b
        /\ handedBack \subseteq handedBack'
        /\ handedBack' \cup Held(t)' = handedBack \cup Held(t) \cup b
        /\ handedBack' \cap Held(t)' = {}
    BY <2>3, <2>4
  <2> QED
    BY <1>2, <2>1, <2>2, <2>5, HandStep
<1>6. ASSUME NEW t \in Thread, NEW op \in Calls, NEW m \in Method,
             NEW i \in Imp, UnknownSelector(t, op, m, i)
      PROVE  PlaceInv'
  <2>1. pc' = pc /\ frame' = frame
    BY <1>6 DEF UnknownSelector
  <2>2. Table' = Table
    BY <1>6, <2>1, TableKept DEF UnknownSelector, CriticalLabel
  <2>3. Held(t) = {} /\ Held(t)' = {}
    BY <1>1, <1>6 DEF UnknownSelector, Held
  <2> DEFINE b == {i}
  <2>4. /\ b \cap used = {} /\ NoImp \notin b /\ used' = used \cup b
        /\ handedBack \subseteq handedBack'
        /\ handedBack' \cup Held(t)' = handedBack \cup Held(t) \cup b
        /\ handedBack' \cap Held(t)' = {}
    BY <1>6, <2>3 DEF UnknownSelector
  <2> QED
    BY <1>2, <2>1, <2>2, <2>4, HandStep
<1>7. ASSUME NEW t \in Thread, used' = used,
             \A u \in Thread : u # t => pc'[u] = pc[u] /\ frame'[u] = frame[u],
             Table' = Table,
             \/ handedBack' = handedBack /\ Held(t)' = Held(t)
             \/ handedBack' = handedBack \cup Held(t) /\ Held(t)' = {}
      PROVE  PlaceInv'
  <2> DEFINE b == {}
  <2>1. /\ b \cap used = {} /\ NoImp \notin b /\ used' = used \cup b
        /\ handedBack \subseteq handedBack'
        /\ handedBack' \cup Held(t)' = handedBack \cup Held(t) \cup b
        /\ handedBack' \cap Held(t)' = {}
    BY <1>3, <1>7
  <2> QED
    BY <1>2, <1>7, <2>1, HandStep
<1>8. ASSUME NEW t \in Thread,
             \/ \E m, n \in Method : BeginExchange(t, m, n)
             \/ \E m \in Method : GetMethodImplementation(t, m)
             \/ Lookup(t)
      PROVE  PlaceInv'
  <2>1. /\ \A u \in Thread : u # t => pc'[u] = pc[u] /\ frame'[u] = frame[u]
        /\ used' = used /\ handedBack' = handedBack
        /\ imp' = imp /\ lock' = lock /\ pc[t] \notin CriticalLabel
    BY <1>1, <1>8 DEF BeginExchange, GetMethodImplementation, Lookup, Return,
       Goto, CriticalLabel
  <2>2. Held(t) = {} /\ Held(t)' = {}
    BY <1>1, <1>8 DEF BeginExchange, GetMethodImplementation, Lookup, Return,
       Goto, Call, Held
  <2> QED
    BY <1>7, <2>1, <2>2, TableKept
<1>9. ASSUME NEW t \in Thread, AcquireLock(t)
      PROVE  PlaceInv'
  <2>1. /\ \A u \in Thread : u # t => pc'[u] = pc[u] /\ frame'[u] = frame[u]
        /\ used' = used /\ handedBack' = handedBack
    BY <1>1, <1>9 DEF AcquireLock, Goto
  <2>2. Held(t)' = Held(t)
    <3>1. /\ pc[t] = "lock" /\ frame'[t] = frame[t]
          /\ pc'[t] = IF frame[t].op = "exchange" THEN "exchangeRead"
                                                  ELSE "lookupMethod"
      BY <1>1, <1>9 DEF AcquireLock, Goto
    <3>2. IF frame[t].op = "exchange" THEN frame[t].imp = NoImp
                                      ELSE frame[t].imp \in Imp
      BY <1>1, <3>1 DEF ReadAt, IInv, CallInv
    <3>3. CASE frame[t].op = "exchange"
      BY <3>1, <3>2, <3>3 DEF Held
    <3>4. CASE frame[t].op # "exchange"
      BY <3>1, <3>2, <3>4 DEF Held
    <3> QED
      BY <3>3, <3>4
  <2> QED
    BY <1>7, <1>9, <2>1, <2>2, TableKept
<1>10. ASSUME NEW t \in Thread, LookupMethodFound(t)
       PROVE  PlaceInv'
  <2>1. /\ \A u \in Thread : u # t => pc'[u] = pc[u] /\ frame'[u] = frame[u]
        /\ used' = used /\ handedBack' = handedBack
    BY <1>1, <1>10 DEF LookupMethodFound, Goto
  <2>2. Held(t)' = Held(t)
    <3>1. frame[t] \in Frame /\ frame[t].m \in Method
      BY <1>10, FrameType DEF LookupMethodFound, IInv
    <3>2. /\ pc[t] = "lookupMethod"
          /\ pc'[t] = IF frame[t].op = "replaceMethod" THEN "setFound" ELSE "unlock"
          /\ frame'[t].imp = frame[t].imp /\ frame'[t].op = frame[t].op
          /\ frame'[t].res = imp[frame[t].m]
      BY <1>1, <1>10, <3>1 DEF LookupMethodFound, Goto, Frame
    <3>3. imp[frame[t].m] # NoImp
      BY <1>10, <3>1 DEF LookupMethodFound, IInv, PresentInv
    <3>4. frame[t].op \in {"addMethod", "replaceMethod"}
      BY <1>1, <3>2 DEF ReadAt, IInv, CallInv
    <3>5. CASE frame[t].op = "replaceMethod"
      BY <3>2, <3>5 DEF Held
    <3>6. CASE frame[t].op = "addMethod"
      <4>1. pc'[t] = "unlock" /\ GivenBack(frame[t])' = {frame[t].imp}
        BY <3>2, <3>3, <3>6 DEF GivenBack
      <4>2. Held(t)' = GivenBack(frame[t])'
        BY <4>1 DEF Held
      <4>3. Held(t) = {frame[t].imp}
        BY <3>2 DEF Held
      <4> QED
        BY <4>1, <4>2, <4>3
    <3> QED
      BY <3>4, <3>5, <3>6
  <2> QED
    BY <1>7, <1>10, <2>1, <2>2, TableKept
<1>11. ASSUME NEW t \in Thread, LookupMethodAbsent(t)
       PROVE  PlaceInv'
  <2>1. /\ \A u \in Thread : u # t => pc'[u] = pc[u] /\ frame'[u] = frame[u]
        /\ used' = used /\ handedBack' = handedBack
    BY <1>1, <1>11 DEF LookupMethodAbsent, Goto
  <2>2. Held(t)' = Held(t)
    BY <1>1, <1>11 DEF LookupMethodAbsent, Goto, Held
  <2> QED
    BY <1>7, <1>11, <2>1, <2>2, TableKept
<1>12. ASSUME NEW t \in Thread, ExchangeRead(t) \/ ExchangeFirst(t)
       PROVE  PlaceInv'
  <2>1. /\ \A u \in Thread : u # t => pc'[u] = pc[u] /\ frame'[u] = frame[u]
        /\ used' = used /\ handedBack' = handedBack
        /\ pc[t] \in {"exchangeRead", "exchangeFirst"}
        /\ pc'[t] \in {"exchangeFirst", "exchangeSecond"}
    BY <1>1, <1>12 DEF ExchangeRead, ExchangeFirst, Goto
  <2>2. Held(t) = {} /\ Held(t)' = {}
    BY <2>1 DEF Held
  <2> QED
    BY <1>7, <1>12, <2>1, <2>2, TableKept
<1>13. ASSUME NEW t \in Thread, InvalidateCaches(t)
       PROVE  PlaceInv'
  <2>1. /\ \A u \in Thread : u # t => pc'[u] = pc[u] /\ frame'[u] = frame[u]
        /\ used' = used /\ handedBack' = handedBack
        /\ pc[t] = "invalidate" /\ pc'[t] = "unlock" /\ frame'[t] = frame[t]
    BY <1>1, <1>13 DEF InvalidateCaches, Goto
  <2>2. Held(t) = {} /\ Held(t)' = {}
    BY <2>1 DEF Held, GivenBack, IInv, CallInv
  <2> QED
    BY <1>7, <1>13, <2>1, <2>2, TableKept
<1>14. ASSUME NEW t \in Thread, Unlock(t)
       PROVE  PlaceInv'
  <2>1. /\ \A u \in Thread : u # t => pc'[u] = pc[u] /\ frame'[u] = frame[u]
        /\ used' = used /\ handedBack' = handedBack \cup GivenBack(frame[t])
        /\ pc[t] = "unlock" /\ pc'[t] = "idle"
    BY <1>1, <1>14 DEF Unlock, Return, Goto
  <2>2. Held(t) = GivenBack(frame[t]) /\ Held(t)' = {}
    BY <2>1 DEF Held
  <2> QED
    BY <1>7, <1>14, <2>1, <2>2, TableKept
<1>15. ASSUME NEW t \in Thread, SetFound(t) \/ AddList(t)
       PROVE  PlaceInv'
  <2>1. /\ \A u \in Thread : u # t => pc'[u] = pc[u] /\ frame'[u] = frame[u]
        /\ used' = used /\ handedBack' = handedBack
        /\ pc[t] \in {"setFound", "addList"} /\ pc'[t] = "unlock"
        /\ frame'[t] = frame[t]
    BY <1>1, <1>15 DEF SetFound, AddList, Goto
  <2>2. /\ frame[t].m \in Method /\ frame[t].imp \in Imp
        /\ Table[frame[t].m] = frame[t].res
        /\ AddList(t) <=> frame[t].res = NoImp
        /\ Table' = [Table EXCEPT ![frame[t].m] = frame[t].imp]
    BY <1>15, TableInstalled
  <2>3. Held(t) = {frame[t].imp}
    BY <2>1 DEF Held
  <2>4. frame[t].op \in {"addMethod", "replaceMethod"}
    BY <1>1, <2>1 DEF ReadAt, IInv, CallInv
  <2>5. Held(t)' = {frame[t].res} \ {NoImp}
    <3>1. Held(t)' = GivenBack(frame[t])
      BY <2>1 DEF Held, GivenBack
    <3>2. CASE frame[t].op = "replaceMethod"
      BY <3>1, <3>2 DEF GivenBack
    <3>3. CASE frame[t].op = "addMethod"
      <4>1. frame[t].res = NoImp
        BY <1>1, <1>15, <2>2, <3>3 DEF SetFound, ReadAt
      <4> QED
        BY <3>1, <3>3, <4>1 DEF GivenBack
    <3> QED
      BY <2>4, <3>2, <3>3
  <2>6. PICK m \in Method, i \in Imp : m = frame[t].m /\ i = frame[t].imp
    BY <2>2
  <2>7. /\ Table' = [Table EXCEPT ![m] = i] /\ Held(t) = {i}
        /\ Held(t)' = {Table[m]} \ {NoImp}
    BY <2>2, <2>3, <2>5, <2>6
  <2>8. \A u \in Thread : u # t => Held(u)' = Held(u)
    BY <1>2, <2>1
  <2> QED
    BY <2>1, <2>7, <2>8, TableDomain, InstallStep
<1>16. ASSUME NEW t \in Thread, ExchangeSecond(t)
       PROVE  PlaceInv'
  <2>1. /\ \A u \in Thread : u # t => pc'[u] = pc[u] /\ frame'[u] = frame[u]
        /\ used' = used /\ handedBack' = handedBack
        /\ pc[t] = "exchangeSecond" /\ pc'[t] = "invalidate"
    BY <1>1, <1>16 DEF ExchangeSecond, Goto
  <2>2. Held(t) = {} /\ Held(t)' = {}
    BY <2>1 DEF Held
  <2>3. \A u \in Thread : Held(u)' = Held(u)
    BY <1>2, <2>1, <2>2
  <2>4. /\ frame[t].m \in Method /\ frame[t].n \in Method
        /\ Table' = [Table EXCEPT ![frame[t].m] = Table[frame[t].n],
                                  ![frame[t].n] = Table[frame[t].m]]
    BY <1>16, TableSwapped
  <2>5. PICK m \in Method, n \in Method : m = frame[t].m /\ n = frame[t].n
    BY <2>4
  <2>6. Table' = [Table EXCEPT ![m] = Table[n], ![n] = Table[m]]
    BY <2>4, <2>5
  <2> QED
    BY <2>1, <2>3, <2>6, TableDomain, SwapStep
<1> QED
  BY <1>4, <1>5, <1>6, <1>8, <1>9, <1>10, <1>11, <1>12, <1>13, <1>14, <1>15,
     <1>16
  DEF Next, Begin, Critical, RegisterSelector, SetImplementation, vars

(* No implementation is lost and none is in two places, whenever the lock  *)
(* is free: replacing and exchanging leave nothing that a caller would     *)
(* have to chain to unreachable.                                           *)
THEOREM Conserved == Spec => []Conservation
<1>1. CASE "setImplementation" \in Calls
  <2>1. Conservation
    BY <1>1 DEF Conservation
  <2> QED
    BY <2>1, PTL
<1>2. CASE "setImplementation" \notin Calls
  <2>1. IInv /\ PlaceInv => Conservation
    <3> SUFFICES ASSUME IInv, PlaceInv, lock = NoThread
                 PROVE  Conservation
      BY DEF Conservation
    <3>1. Table = [m \in Method |-> imp[m]]
      BY DEF Table
    <3>2. \A m \in Method : Table[m] = imp[m]
      BY <3>1
    <3>3. Tabled = Installed
      BY <3>2 DEF Tabled, Installed
    <3>4. \A t \in Thread : pc[t] \notin CriticalLabel
      BY SentinelAssumption DEF IInv, LockInv
    <3>5. \A t \in Thread :
            Held(t) = IF pc[t] = "lock" THEN {frame[t].imp} \ {NoImp} ELSE {}
      BY <3>4 DEF Held, CriticalLabel
    <3>6. \A i : i \in Waiting <=> \E t \in Thread : i \in Held(t)
      BY <3>5 DEF Waiting
    <3>7. used = Installed \cup handedBack \cup Waiting
      BY <3>3, <3>6 DEF PlaceInv
    <3>8. Installed \cap handedBack = {}
      BY <3>3 DEF PlaceInv
    <3>9. Waiting \cap (Installed \cup handedBack) = {}
      BY <3>3, <3>6 DEF PlaceInv
    <3>10. \A m, n \in Method : imp[m] = imp[n] => m = n \/ imp[m] = NoImp
      BY <3>2 DEF PlaceInv
    <3> QED
      BY <3>7, <3>8, <3>9, <3>10 DEF Conservation
  <2> QED
    BY <1>2, <2>1, PlaceInit, PlaceNext, ReadInvariance, PTL DEF Spec
<1> QED
  BY <1>1, <1>2
=============================================================================
