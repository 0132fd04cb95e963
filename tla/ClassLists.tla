----------------------------- MODULE ClassLists -----------------------------
(***************************************************************************)
(* The lists of properties, protocols and methods a class declares, as     *)
(* src/src/class.m adds to them (class_addProperty, class_replaceProperty, *)
(* class_addProtocol) and copies them out (class_copyMethodList,           *)
(* class_copyPropertyList, class_copyProtocolList).                        *)
(*                                                                         *)
(* Adding looks for the entry and appends it in two steps, without a lock. *)
(* Copying walks the list twice: once to count, once to fill the block.    *)
(* The lists are the runtime's: they only grow, and a walk visits the      *)
(* latest addition first (test/07_class/copyMethodList.m wants a           *)
(* category's methods before those of the class).  Calls for no class, for *)
(* a metaclass, and additions that are refused change nothing and are left *)
(* out.                                                                    *)
(***************************************************************************)
EXTENDS Naturals, Sequences, FiniteSets, FiniteSetsExt

CONSTANTS
  Thread,
  Registrar,    (* the threads that add properties and protocols           *)
  Class,
  Item,         (* names of properties and methods, ids of protocols       *)
  Attributes,   (* attribute strings of properties                         *)
  Lineage,      (* for each class: itself, its superclass, ... to the root *)
  Compiled,     (* the lists the compiled classes come with                *)
  NoAttributes,
  NoFrame

Kind == {"property", "protocol", "method"}

Entry == [item : Item, attributes : Attributes \cup {NoAttributes}]

ASSUME ListsAssumption ==
  /\ Registrar \subseteq Thread /\ IsFiniteSet(Registrar)
  /\ Lineage \in [Class -> Seq(Class)]
  /\ \A c \in Class : Len(Lineage[c]) > 0 /\ Lineage[c][1] = c
  /\ Compiled \in [Kind -> [Class -> Seq(Entry)]]
  /\ \A k \in Kind, c \in Class : \A i, j \in DOMAIN Compiled[k][c] :
       Compiled[k][c][i].item = Compiled[k][c][j].item => i = j

VARIABLES
  lists,   (* lists[k][c]: what class c declares of kind k, oldest first   *)
  pc,
  frame    (* arguments and locals of each thread's call                   *)

vars == <<lists, pc, frame>>

Goto(t, label) == pc' = [pc EXCEPT ![t] = label]

Return(t) == Goto(t, "idle") /\ frame' = [frame EXCEPT ![t] = NoFrame]

Enter(t, label, f) == Goto(t, label) /\ frame' = [frame EXCEPT ![t] = f]

Init ==
  /\ lists = Compiled
  /\ pc = [t \in Thread |-> "idle"]
  /\ frame = [t \in Thread |-> NoFrame]

-----------------------------------------------------------------------------
(* Where a class declares x, and which classes of a lineage do.            *)
Positions(k, c, x) == {i \in DOMAIN lists[k][c] : lists[k][c][i].item = x}

Declaring(k, c, x) ==
  {l \in DOMAIN Lineage[c] : Positions(k, Lineage[c][l], x) # {}}

(* class_getProperty: the nearest class that declares it has it; inherited *)
(* properties are found.                                                   *)
GetProperty(c, x) ==
  LET d == Lineage[c][Min(Declaring("property", c, x))]
  IN  <<d, Max(Positions("property", d, x))>>

Adding(k, c, x, a) == [kind |-> k, class |-> c, at |-> 0,
                       entry |-> [item |-> x, attributes |-> a]]

(* Faulty: adds without looking.                                           *)
BeginAddPropertyUnchecked(t, c, x, a) ==
  /\ t \in Registrar /\ pc[t] = "idle"
  /\ Enter(t, "append", Adding("property", c, x, a))
  /\ UNCHANGED lists

(* class_addProperty and class_replaceProperty of a property that neither  *)
(* the class nor a class above it declares.                                *)
BeginAddProperty(t, c, x, a) ==
  /\ t \in Registrar /\ pc[t] = "idle"
  /\ Declaring("property", c, x) = {}
  /\ Enter(t, "append", Adding("property", c, x, a))
  /\ UNCHANGED lists

(* class_replaceProperty of a property that is found: the entry is to be   *)
(* rewritten, also where it is a superclass's.                             *)
BeginReplaceProperty(t, c, x, a) ==
  /\ t \in Registrar /\ pc[t] = "idle"
  /\ Declaring("property", c, x) # {}
  /\ Enter(t, "rewrite",
           [Adding("property", GetProperty(c, x)[1], x, a)
              EXCEPT !.at = GetProperty(c, x)[2]])
  /\ UNCHANGED lists

(* class_conformsToProtocol: what a superclass conforms to does not count. *)
class_conformsToProtocol(c, x) == Positions("protocol", c, x) # {}

(* class_addProtocol of a protocol the class does not conform to itself.   *)
BeginAddProtocol(t, c, x) ==
  /\ t \in Registrar /\ pc[t] = "idle"
  /\ ~class_conformsToProtocol(c, x)
  /\ Enter(t, "append", Adding("protocol", c, x, NoAttributes))
  /\ UNCHANGED lists

(* Faulty: the new entry goes before the old ones.                         *)
AddEntryInFront(t) ==
  LET f == frame[t] IN
  /\ pc[t] = "append"
  /\ lists' = [lists EXCEPT ![f.kind][f.class] = <<f.entry>> \o @]
  /\ Return(t)

(* A list with the one new entry is added to the class.                    *)
AddEntry(t) ==
  LET f == frame[t] IN
  /\ pc[t] = "append"
  /\ lists' = [lists EXCEPT ![f.kind][f.class] = Append(@, f.entry)]
  /\ Return(t)

(* Faulty: the property is overwritten with its attributes.                *)
RewriteWhole(t) ==
  LET f == frame[t] IN
  /\ pc[t] = "rewrite"
  /\ lists' = [lists EXCEPT ![f.kind][f.class][f.at] = f.entry.attributes]
  /\ Return(t)

(* prop->signature = s                                                     *)
Rewrite(t) ==
  LET f == frame[t] IN
  /\ pc[t] = "rewrite"
  /\ lists' = [lists EXCEPT ![f.kind][f.class][f.at] = f.entry]
  /\ Return(t)

(* class_addMethod: search and addition are one step for all who take the  *)
(* universe lock (see Methods).                                            *)
AddMethod(c, x) ==
  /\ Positions("method", c, x) = {}
  /\ lists' = [lists EXCEPT !["method"][c] =
                 Append(@, [item |-> x, attributes |-> NoAttributes])]
  /\ UNCHANGED <<pc, frame>>

-----------------------------------------------------------------------------
(* A walk: the numbers of the entries of a list of length n, latest first. *)
Walk(n) == [i \in 1 .. n |-> n + 1 - i]

(* The first walk counts; the block gets a slot for each entry and one for *)
(* the terminating null.  (Nothing is copied from an empty list.)          *)
CountEntries(t, k, c) ==
  /\ pc[t] = "idle"
  /\ Len(lists[k][c]) > 0
  /\ Enter(t, "copy", [kind |-> k, class |-> c,
                       count |-> Len(lists[k][c]), block |-> <<>>])
  /\ UNCHANGED lists

(* Faulty: the second walk does not stop at the sentinel.                  *)
CopyEntriesUnbounded(t) ==
  LET f == frame[t] IN
  /\ pc[t] = "copy"
  /\ frame' = [frame EXCEPT ![t].block = Walk(Len(lists[f.kind][f.class]))]
  /\ Goto(t, "copied")
  /\ UNCHANGED lists

(* The second walk stops at the sentinel.                                  *)
CopyEntries(t) ==
  LET f == frame[t]
      w == Walk(Len(lists[f.kind][f.class]))
  IN
  /\ pc[t] = "copy"
  /\ frame' = [frame EXCEPT ![t].block = SubSeq(w, 1, Min({f.count, Len(w)}))]
  /\ Goto(t, "copied")
  /\ UNCHANGED lists

ReturnBlock(t) ==
  /\ pc[t] = "copied"
  /\ Return(t)
  /\ UNCHANGED lists

Next ==
  \/ \E c \in Class, x \in Item : AddMethod(c, x)
  \/ \E t \in Thread :
       \/ \E c \in Class, x \in Item :
            \/ \E a \in Attributes :
                 BeginAddProperty(t, c, x, a) \/ BeginReplaceProperty(t, c, x, a)
            \/ BeginAddProtocol(t, c, x)
       \/ \E k \in Kind, c \in Class : CountEntries(t, k, c)
       \/ AddEntry(t) \/ Rewrite(t) \/ CopyEntries(t) \/ ReturnBlock(t)

Spec == Init /\ [][Next]_vars

-----------------------------------------------------------------------------
AddFrame == [kind : Kind, class : Class, at : Nat, entry : Entry]
CopyFrame == [kind : Kind, class : Class, count : Nat, block : Seq(Nat)]

TypeOK ==
  /\ lists \in [Kind -> [Class -> Seq(Entry)]]
  /\ pc \in [Thread -> {"idle", "append", "rewrite", "copy", "copied"}]
  /\ \A t \in Thread :
       CASE pc[t] = "idle" -> frame[t] = NoFrame
         [] pc[t] \in {"append", "rewrite"} -> frame[t] \in AddFrame
         [] OTHER -> frame[t] \in CopyFrame

(* Nothing keeps two threads from both adding what neither has found; but  *)
(* each thread finds what it has added itself.  A class declares a         *)
(* property or protocol at most once for each thread that adds, so exactly *)
(* once where registration is synchronized, and a method once.             *)
OncePerRegistrar ==
  \A c \in Class, x \in Item :
    /\ \A k \in {"property", "protocol"} :
         Cardinality(Positions(k, c, x)) <= Max({1, Cardinality(Registrar)})
    /\ Cardinality(Positions("method", c, x)) <= 1

(* A rewrite goes to the entry it is meant for: the pointer the search     *)
(* answered still denotes the property, whatever was added since.          *)
RewritesItsProperty ==
  \A t \in Thread : pc[t] = "rewrite" =>
    frame[t].at \in Positions(frame[t].kind, frame[t].class, frame[t].entry.item)

(* However the lists grow between the two walks, the block that a copy     *)
(* returns has as many entries as it says, each of them once and each one  *)
(* declared by the class: no slot below the count is left unwritten and    *)
(* none is written beyond it.                                              *)
BlockExact ==
  \A t \in Thread : pc[t] = "copied" =>
    LET f == frame[t] IN
    /\ Len(f.block) = f.count
    /\ \A i, j \in DOMAIN f.block : f.block[i] = f.block[j] => i = j
    /\ \A i \in DOMAIN f.block : f.block[i] \in DOMAIN lists[f.kind][f.class]
=============================================================================
