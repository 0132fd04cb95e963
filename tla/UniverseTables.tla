---------------------------- MODULE UniverseTables ----------------------------
(***************************************************************************)
(* The tables of the universe that src/src/class.m and src/src/protocol.m  *)
(* fill and list: classes are registered, listed and disposed of, protocols *)
(* are allocated, registered and listed.                                   *)
(*                                                                         *)
(* The tables are the runtime's concurrent hash tables.  Nothing here takes *)
(* a lock: a walk over a table meets everything that was in it when the    *)
(* walk began and is still there when it ends, and may or may not meet what *)
(* comes or goes meanwhile.                                                *)
(***************************************************************************)
EXTENDS Naturals, FiniteSets

CONSTANTS
  Thread,       (* the threads of the program                              *)
  Main,         (* the one that runs the universe                          *)
  Class,        (* class pairs, named by their infraclass                  *)
  Compiled,     (* the classes that come with the program                  *)
  Struct,       (* Protocol structs                                        *)
  Id,           (* protocol ids, the hashes of the names                   *)
  MaxSlots,     (* a caller's buffers and limits are at most this large    *)
  None          (* no struct, no id                                        *)

ASSUME MainAssumption == Main \in Thread
ASSUME CompiledAssumption == Compiled \subseteq Class
ASSUME SlotsAssumption == MaxSlots \in Nat
ASSUME FiniteAssumption == IsFiniteSet(Class) /\ IsFiniteSet(Struct)
ASSUME NoneAssumption ==
  None \notin Struct /\ None \notin Id /\ None \notin Nat

VARIABLES
  allocated,    (* class pairs that have been allocated and not freed      *)
  registered,   (* the class table                                         *)
  protocolid,   (* each Protocol struct's id, None while it is not made    *)
  protocols,    (* the protocol table: id to struct                        *)
  running,      (* the threads that hold the universe                      *)
  call          (* what each thread is doing                               *)

tables == <<allocated, registered, protocolid, protocols>>
vars == <<tables, running, call>>

-----------------------------------------------------------------------------
(* A call: the step it is at, the table as the walk found it, the slots of *)
(* the block (or the caller's limit), the entries written so far, the count *)
(* that is answered, and the count a protocol listing answered last.       *)
Label == {"idle", "countClasses", "fillClasses", "fillBuffer",
          "countProtocols", "fillProtocols",
          "classes", "buffer", "protocols"}

Idle == [at |-> "idle", found |-> {}, slots |-> 0, list |-> {},
         count |-> 0, learned |-> None]

Registered == {protocols[i] : i \in Id} \ {None}

Init ==
  /\ allocated = Compiled
  /\ registered = Compiled
  /\ protocolid = [p \in Struct |-> None]
  /\ protocols = [i \in Id |-> None]
  /\ running = {Main}
  /\ call = [t \in Thread |-> Idle]

At(t, label) == t \in running /\ call[t].at = label

(* The universe is retained by a thread that starts and released by one    *)
(* that ends.                                                              *)
StartThread(t) ==
  /\ t \notin running
  /\ running' = running \cup {t}
  /\ UNCHANGED <<tables, call>>

EndThread(t) ==
  /\ t # Main
  /\ At(t, "idle")
  /\ running' = running \ {t}
  /\ call' = [call EXCEPT ![t] = Idle]
  /\ UNCHANGED tables

-----------------------------------------------------------------------------
(* Classes.                                                                *)

AllocateClassPair(t, c) ==
  /\ At(t, "idle")
  /\ c \notin allocated
  /\ allocated' = allocated \cup {c}
  /\ UNCHANGED <<registered, protocolid, protocols, running, call>>

RegisterClassPair(t, c) ==
  /\ At(t, "idle")
  /\ c \in allocated \ registered
  /\ registered' = registered \cup {c}
  /\ UNCHANGED <<allocated, protocolid, protocols, running, call>>

(* Faulty: the count of the threads is not looked at.                      *)
DisposeBesideThreads(t, c) ==
  /\ At(t, "idle")
  /\ c \in allocated
  /\ allocated' = allocated \ {c}
  /\ registered' = registered \ {c}
  /\ UNCHANGED <<protocolid, protocols, running, call>>

(* objc_disposeClassPair aborts the program unless the caller is alone.    *)
DisposeClassPair(t, c) ==
  /\ At(t, "idle")
  /\ running = {Main}
  /\ c \in allocated
  /\ allocated' = allocated \ {c}
  /\ registered' = registered \ {c}
  /\ UNCHANGED <<protocolid, protocols, running, call>>

(* What a walk may have met that began with the entries found and ends now. *)
Visited(found, now) ==
  {s \in SUBSET (found \cup now) : found \cap now \subseteq s}

(* Faulty: the slots are not looked at.                                    *)
EveryVisited(s, slots) == {s}

(* A walk writes what it meets until the slots are full.                   *)
Written(s, slots) ==
  {w \in SUBSET s :
     Cardinality(w) = IF Cardinality(s) < slots THEN Cardinality(s) ELSE slots}

Begin(t, label, found, slots) ==
  /\ At(t, "idle")
  /\ call' = [call EXCEPT ![t].at = label, ![t].found = found,
                          ![t].slots = slots]
  /\ UNCHANGED <<tables, running>>

(* The caller reads the list it was given, and is idle again.              *)
Answer(t, label, list, count) ==
  /\ call' = [call EXCEPT ![t].at = label, ![t].list = list,
                          ![t].count = count]
  /\ UNCHANGED <<tables, running>>

(* objc_getClassList with a buffer: one walk, and the answer is the size of *)
(* the buffer, whatever was written.                                       *)
GetClassList(t, bufferCount) == Begin(t, "fillBuffer", registered, bufferCount)

EndGetClassList(t) ==
  /\ At(t, "fillBuffer")
  /\ \E s \in Visited(call[t].found, registered) :
       \E list \in Written(s, call[t].slots) :
         Answer(t, "buffer", list, call[t].slots)

(* objc_copyClassList: objc_getClassList without a buffer counts, then a   *)
(* block with one slot more is filled.                                     *)
CopyClassList(t) == Begin(t, "countClasses", registered, 0)

(* Faulty: no slot is added to the block.                                  *)
CountClassesExactly(t) ==
  /\ At(t, "countClasses")
  /\ \E s \in Visited(call[t].found, registered) :
       call' = [call EXCEPT ![t].at = "fillClasses", ![t].found = registered,
                            ![t].slots = Cardinality(s),
                            ![t].count = Cardinality(s)]
  /\ UNCHANGED <<tables, running>>

(* Faulty: the size of the block is what is answered.                      *)
CountClassesWithSpare(t) ==
  /\ At(t, "countClasses")
  /\ \E s \in Visited(call[t].found, registered) :
       call' = [call EXCEPT ![t].at = "fillClasses", ![t].found = registered,
                            ![t].slots = Cardinality(s) + 1,
                            ![t].count = Cardinality(s) + 1]
  /\ UNCHANGED <<tables, running>>

CountClasses(t) ==
  /\ At(t, "countClasses")
  /\ \E s \in Visited(call[t].found, registered) :
       call' = [call EXCEPT ![t].at = "fillClasses", ![t].found = registered,
                            ![t].slots = Cardinality(s) + 1,
                            ![t].count = Cardinality(s)]
  /\ UNCHANGED <<tables, running>>

FillClasses(t) ==
  /\ At(t, "fillClasses")
  /\ \E s \in Visited(call[t].found, registered) :
       \E list \in Written(s, call[t].slots) :
         Answer(t, "classes", list, call[t].count)

-----------------------------------------------------------------------------
(* Protocols.                                                              *)

(* objc_allocateProtocol makes a struct for a name nobody has registered;  *)
(* until it is registered another thread may make one for the same name.   *)
AllocateProtocol(t, p, i) ==
  /\ At(t, "idle")
  /\ protocolid[p] = None
  /\ protocols[i] = None
  /\ protocolid' = [protocolid EXCEPT ![p] = i]
  /\ UNCHANGED <<allocated, registered, protocols, running, call>>

(* Faulty: the last registration of a name wins.                           *)
RegisterOverwrites(t, p) ==
  /\ At(t, "idle")
  /\ protocolid[p] # None
  /\ protocols' = [protocols EXCEPT ![protocolid[p]] = p]
  /\ UNCHANGED <<allocated, registered, protocolid, running, call>>

(* The first registration of a name wins; that there was one is not said.  *)
RegisterProtocol(t, p) ==
  /\ At(t, "idle")
  /\ protocolid[p] # None
  /\ protocols' = [protocols EXCEPT
                     ![protocolid[p]] = IF @ = None THEN p ELSE @]
  /\ UNCHANGED <<allocated, registered, protocolid, running, call>>

(* objc_getProtocol: the registered struct, or null.                       *)
GetProtocol(i) == protocols[i]

protocol_conformsToProtocol(p, other) == protocolid[p] = other

protocol_isEqual(p, other) == p = other

(* objc_copyProtocolList reads *outCount before it writes it: a caller that *)
(* leaves too few slots is told how many there are and gets no list, any   *)
(* other gets a block with a slot for each counted one, and *outCount stays. *)
CopyProtocolList(t, limit) == Begin(t, "countProtocols", {}, limit)

(* Faulty: the limit is not looked at.                                     *)
CountProtocolsUnlimited(t) ==
  /\ At(t, "countProtocols")
  /\ call' = [call EXCEPT ![t].at = "fillProtocols", ![t].found = Registered,
                          ![t].count = call[t].slots,
                          ![t].slots = Cardinality(Registered)]
  /\ UNCHANGED <<tables, running>>

CountProtocols(t) ==
  LET n == Cardinality(Registered) IN
  /\ At(t, "countProtocols")
  /\ call[t].slots >= n
  /\ call' = [call EXCEPT ![t].at = "fillProtocols", ![t].found = Registered,
                          ![t].count = call[t].slots, ![t].slots = n]
  /\ UNCHANGED <<tables, running>>

TooManyProtocols(t) ==
  LET n == Cardinality(Registered) IN
  /\ At(t, "countProtocols")
  /\ call[t].slots < n
  /\ call' = [call EXCEPT ![t] = [Idle EXCEPT !.learned = n]]
  /\ UNCHANGED <<tables, running>>

FillProtocols(t) ==
  /\ At(t, "fillProtocols")
  /\ \E s \in Visited(call[t].found, Registered) :
       \E list \in Written(s, call[t].slots) :
         Answer(t, "protocols", list, call[t].count)

Read(t) ==
  /\ call[t].at \in {"classes", "buffer", "protocols"}
  /\ call' = [call EXCEPT ![t] = Idle]
  /\ UNCHANGED <<tables, running>>

-----------------------------------------------------------------------------
Next ==
  \E t \in Thread :
    \/ StartThread(t) \/ EndThread(t)
    \/ \E c \in Class : \/ AllocateClassPair(t, c)
                        \/ RegisterClassPair(t, c)
                        \/ DisposeClassPair(t, c)
    \/ \E n \in 0 .. MaxSlots : GetClassList(t, n) \/ CopyProtocolList(t, n)
    \/ EndGetClassList(t)
    \/ CopyClassList(t) \/ CountClasses(t) \/ FillClasses(t)
    \/ \E p \in Struct : \/ \E i \in Id : AllocateProtocol(t, p, i)
                         \/ RegisterProtocol(t, p)
    \/ CountProtocols(t) \/ TooManyProtocols(t) \/ FillProtocols(t)
    \/ Read(t)

Spec == Init /\ [][Next]_vars

-----------------------------------------------------------------------------
(* Properties.                                                             *)

Calls == [at : Label, found : (SUBSET Class) \cup (SUBSET Struct),
          slots : 0 .. MaxSlots \cup 0 .. Cardinality(Class) + 1
                    \cup 0 .. Cardinality(Struct),
          list : (SUBSET Class) \cup (SUBSET Struct),
          count : 0 .. MaxSlots \cup 0 .. Cardinality(Class),
          learned : 0 .. Cardinality(Struct) \cup {None}]

(* The state has its types: the class table holds allocated classes only,  *)
(* the protocol table structs under their own ids.                         *)
TypeOK ==
  /\ allocated \subseteq Class
  /\ registered \subseteq allocated
  /\ protocolid \in [Struct -> Id \cup {None}]
  /\ protocols \in [Id -> Struct \cup {None}]
  /\ \A i \in Id : protocols[i] # None =>
       protocol_conformsToProtocol(protocols[i], i)
  /\ running \subseteq Thread /\ Main \in running
  /\ call \in [Thread -> Calls]

(* No listing writes beyond its buffer or block, whatever is registered    *)
(* between its two walks.                                                  *)
WithinBlock == \A t \in Thread : Cardinality(call[t].list) <= call[t].slots

(* Every class a caller of objc_getClassList or objc_copyClassList finds in *)
(* its list is alive while it reads the list: that is what the check of    *)
(* the thread count in objc_disposeClassPair is for.                       *)
ListsLive ==
  \A t \in Thread : call[t].at \in {"classes", "buffer"} =>
                     call[t].list \subseteq registered

(* objc_copyClassList never reports more classes than it has written: the  *)
(* block is uninitialized memory, and its last slot is never a terminator. *)
ReportedWritten ==
  \A t \in Thread : call[t].at = "classes" =>
                     Cardinality(call[t].list) >= call[t].count

(* objc_copyClassList misses a class that was there when it began to fill  *)
(* the block only if at least two more than it had counted are registered  *)
(* by then: the slot it allocates on top makes room for one.               *)
SpareSlot ==
  \A t \in Thread :
    call[t].at = "classes" =>
      \/ call[t].found \subseteq call[t].list
      \/ Cardinality(registered) > call[t].count + 1

(* A caller that asks objc_copyProtocolList with the count it was told when *)
(* it got no list, gets a list of exactly that many protocols, or is told  *)
(* again, however many have been registered since.                         *)
LearnedCountExact ==
  \A t \in Thread :
    (call[t].at = "protocols" /\ call[t].count = call[t].learned) =>
      Cardinality(call[t].list) = call[t].count

(* In a list of protocols the structs stand for different names: for two   *)
(* of them protocol_isEqual, which compares structs, answers what          *)
(* protocol_conformsToProtocol, which compares ids, does.  And as long as  *)
(* the list is read each is the struct that objc_getProtocol finds for its *)
(* name, however many threads have allocated one of that name.             *)
IdentityAgrees ==
  \A t \in Thread : call[t].at = "protocols" =>
    \A p, q \in call[t].list :
      /\ protocol_isEqual(p, q) <=> protocol_conformsToProtocol(p, protocolid[q])
      /\ GetProtocol(protocolid[p]) = p
=============================================================================
