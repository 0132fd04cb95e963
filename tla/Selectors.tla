----------------------------- MODULE Selectors -----------------------------
(***************************************************************************)
(* sel_registerName (src/src/selector.m), called by several threads: look  *)
(* the descriptor up, and if there is none prepare one and register it; of *)
(* several threads doing so the runtime keeps one descriptor, and the      *)
(* others free theirs.                                                     *)
(*                                                                         *)
(* What is allocated must be freed exactly once: either by the call, or by *)
(* the universe when it is torn down, to which it is given as a "gift".    *)
(* The signature of a selector with 16 or more arguments comes from        *)
(* _mulle_objc_universe_calloc, which has gifted it already; the shorter   *)
(* signatures are static.  (The null and the empty name answer 0 and       *)
(* change nothing.)                                                        *)
(***************************************************************************)
EXTENDS Naturals

CONSTANTS
  Thread,
  Name,       (* selector names, neither null nor empty                    *)
  Id,         (* method ids                                                *)
  Hash,       (* mulle_objc_methodid_from_string                           *)
  Wide,       (* the names with at least 16 arguments                      *)
  Compiled,   (* the names compiled code has registered                    *)
  NoName,     (* a thread outside of the call                              *)
  NoDesc,     (* no descriptor for a method id                             *)
  Static      (* the descriptor compiled code comes with                   *)

ASSUME SelectorAssumption ==
  /\ Hash \in [Name -> Id]
  /\ Wide \subseteq Name
  /\ Compiled \subseteq Name
  /\ NoName \notin Name
  /\ NoDesc # Static
  /\ NoDesc \notin Thread \X Name /\ Static \notin Thread \X Name

(* The blocks thread t allocates when it registers n.                      *)
Desc(t, n)      == <<t, n, "desc">>
NameOf(t, n)    == <<t, n, "name">>
Signature(t, n) == <<t, n, "signature">>
Block == Thread \X Name \X {"desc", "name", "signature"}

VARIABLES
  table,   (* the universe's descriptors; <<t, n>> is the one t made for n *)
  heap,    (* "free" or "live", for each block                             *)
  gifts,   (* how often each block is on the universe's gift list          *)
  pc,
  str      (* the argument of each thread's call                           *)

vars == <<table, heap, gifts, pc, str>>

Goto(t, label) == pc' = [pc EXCEPT ![t] = label]

Return(t) == Goto(t, "idle") /\ str' = [str EXCEPT ![t] = NoName]

Init ==
  /\ table = [i \in Id |-> IF \E n \in Compiled : Hash[n] = i THEN Static
                                                              ELSE NoDesc]
  /\ heap = [b \in Block |-> "free"]
  /\ gifts = [b \in Block |-> 0]
  /\ pc = [t \in Thread |-> "idle"]
  /\ str = [t \in Thread |-> NoName]

Call(t, n) ==
  /\ pc[t] = "idle"
  /\ str' = [str EXCEPT ![t] = n]
  /\ Goto(t, "lookup")
  /\ UNCHANGED <<table, heap, gifts>>

LookupHit(t) ==
  /\ pc[t] = "lookup"
  /\ table[Hash[str[t]]] # NoDesc
  /\ Goto(t, "return")
  /\ UNCHANGED <<table, heap, gifts, str>>

(* Faulty: an unknown name is answered without being registered.           *)
LookupMissReturns(t) ==
  /\ pc[t] = "lookup"
  /\ table[Hash[str[t]]] = NoDesc
  /\ Goto(t, "return")
  /\ UNCHANGED <<table, heap, gifts, str>>

LookupMiss(t) ==
  /\ pc[t] = "lookup"
  /\ table[Hash[str[t]]] = NoDesc
  /\ Goto(t, "allocate")
  /\ UNCHANGED <<table, heap, gifts, str>>

(* Faulty: the call takes itself for the owner of the wide signature.      *)
AllocatedWithSignature(t, n) ==
  {Desc(t, n), NameOf(t, n)}
    \cup (IF n \in Wide THEN {Signature(t, n)} ELSE {})

(* The blocks that come from the allocator, and the one that comes from    *)
(* the universe and is gifted as it is made.                               *)
Allocated(t, n) == {Desc(t, n), NameOf(t, n)}
Gifted(t, n)    == IF n \in Wide THEN {Signature(t, n)} ELSE {}

Allocate(t) ==
  /\ pc[t] = "allocate"
  /\ heap' = [b \in Block |->
                IF b \in Allocated(t, str[t]) \cup Gifted(t, str[t])
                THEN "live" ELSE heap[b]]
  /\ gifts' = [b \in Block |->
                IF b \in Gifted(t, str[t]) THEN gifts[b] + 1 ELSE gifts[b]]
  /\ Goto(t, "register")
  /\ UNCHANGED <<table, str>>

(* Faulty: the comparison with the registered descriptor is inverted.      *)
RegisterWinDiscards(t) ==
  /\ pc[t] = "register"
  /\ table[Hash[str[t]]] = NoDesc
  /\ table' = [table EXCEPT ![Hash[str[t]]] = <<t, str[t]>>]
  /\ Goto(t, "discard")
  /\ UNCHANGED <<heap, gifts, str>>

(* The runtime keeps the first descriptor for a method id and answers it.  *)
RegisterWin(t) ==
  /\ pc[t] = "register"
  /\ table[Hash[str[t]]] = NoDesc
  /\ table' = [table EXCEPT ![Hash[str[t]]] = <<t, str[t]>>]
  /\ Goto(t, "gift")
  /\ UNCHANGED <<heap, gifts, str>>

RegisterLose(t) ==
  /\ pc[t] = "register"
  /\ table[Hash[str[t]]] # NoDesc
  /\ Goto(t, "discard")
  /\ UNCHANGED <<table, heap, gifts, str>>

(* Faulty: the loser's name is forgotten.                                  *)
DiscardDescOnly(t) ==
  /\ pc[t] = "discard"
  /\ heap' = [heap EXCEPT ![Desc(t, str[t])] = "free"]
  /\ Goto(t, "return")
  /\ UNCHANGED <<table, gifts, str>>

(* Faulty: the loser tries again to get its own descriptor in.             *)
DiscardAndRetry(t) ==
  /\ pc[t] = "discard"
  /\ heap' = [b \in Block |->
                IF b \in Allocated(t, str[t]) THEN "free" ELSE heap[b]]
  /\ Goto(t, "allocate")
  /\ UNCHANGED <<table, gifts, str>>

Discard(t) ==
  /\ pc[t] = "discard"
  /\ heap' = [b \in Block |->
                IF b \in Allocated(t, str[t]) THEN "free" ELSE heap[b]]
  /\ Goto(t, "return")
  /\ UNCHANGED <<table, gifts, str>>

Gift(t) ==
  /\ pc[t] = "gift"
  /\ gifts' = [b \in Block |->
                 IF b \in Allocated(t, str[t]) THEN gifts[b] + 1 ELSE gifts[b]]
  /\ Goto(t, "return")
  /\ UNCHANGED <<table, heap, str>>

(* return( desc->methodid)                                                 *)
ReturnId(t) ==
  /\ pc[t] = "return"
  /\ Return(t)
  /\ UNCHANGED <<table, heap, gifts>>

Step(t) ==
  \/ LookupHit(t) \/ LookupMiss(t) \/ Allocate(t)
  \/ RegisterWin(t) \/ RegisterLose(t) \/ Discard(t) \/ Gift(t) \/ ReturnId(t)

Next == \E t \in Thread : Step(t) \/ \E n \in Name : Call(t, n)

Spec == Init /\ [][Next]_vars

(* The call waits for nobody: a thread that is run finishes it.            *)
FairSpec == Spec /\ \A t \in Thread : WF_vars(Step(t))

-----------------------------------------------------------------------------
Label == {"idle", "lookup", "allocate", "register", "gift", "discard",
          "return"}

TypeOK ==
  /\ table \in [Id -> (Thread \X Name) \cup {NoDesc, Static}]
  /\ heap \in [Block -> {"free", "live"}]
  /\ gifts \in [Block -> Nat]
  /\ pc \in [Thread -> Label]
  /\ str \in [Thread -> Name \cup {NoName}]

(* The universe frees every gift once per entry of its gift list when it   *)
(* is torn down.  That frees nothing twice and nothing a call has freed.   *)
NoDoubleFree ==
  \A b \in Block : gifts[b] <= 1 /\ (gifts[b] = 1 => heap[b] = "live")

(* The descriptor made by t for n is in use by a call of t.                *)
InFlight(t, n) == str[t] = n /\ pc[t] \in {"register", "gift", "discard"}

(* Outside of a call nothing allocated is left that nobody will free:      *)
(* winners have gifted their blocks, losers have freed theirs.             *)
NoLeak ==
  \A t \in Thread, n \in Name :
    ~InFlight(t, n) =>
      \A b \in {Desc(t, n), NameOf(t, n), Signature(t, n)} :
        heap[b] = "live" => gifts[b] = 1

(* A registered descriptor, its name and its signature stay allocated: no  *)
(* loser of a race frees what the winner has published.                    *)
Published ==
  \A i \in Id, t \in Thread, n \in Name :
    table[i] = <<t, n>> =>
      /\ Hash[n] = i
      /\ heap[Desc(t, n)] = "live" /\ heap[NameOf(t, n)] = "live"
      /\ n \in Wide => heap[Signature(t, n)] = "live"

(* Registering is one atomic step of a registry, and every call returns.   *)
(* A lookup that hits and a registration that is kept or refused are the   *)
(* instants at which the answer is fixed.                                  *)
Registry == INSTANCE SelectorRegistry WITH
  registered <- {i \in Id : table[i] # NoDesc},
  request    <- str,
  answered   <- {t \in Thread : pc[t] \in {"gift", "discard", "return"}}

RegistersAtomically == Registry!Spec
RegistersEventually == Registry!FairSpec
=============================================================================
