-------------------------- MODULE PropertyAttributes --------------------------
(***************************************************************************)
(* The attribute string of a property: class_addProperty writes it from a  *)
(* list of attributes (src/src/class.m), property_copyAttributeList and    *)
(* property_copyAttributeValue read it (src/src/property.m).               *)
(*                                                                         *)
(* Strings are sequences of characters without the terminating zero; which *)
(* character is a comma or a quote is all that matters.  The reader scans  *)
(* the string one attribute per step.  Where PropertyAccessors has a       *)
(* definition of the same name, the one here says that it is about         *)
(* attributes, so that a module may extend both.                           *)
(***************************************************************************)
EXTENDS Naturals, Sequences, FiniteSetsExt, SequencesExt

CONSTANTS
  Char,        (* characters                                               *)
  Comma, Quote,
  Text,        (* the strings properties come with, any there are          *)
  AttrLists,   (* the lists of attributes callers pass                     *)
  Query,       (* the names callers look for                               *)
  Garbage,     (* what an unwritten string may read as                     *)
  NoValue,     (* the null value of an attribute                           *)
  NoList,      (* the string was not written by class_addProperty          *)
  All          (* the caller wants all attributes, not one value           *)

(* A name is not empty and has no comma or quote in it, and a value no     *)
(* comma: what copyPropertyAttributeString asserts of the list.            *)
AttributeName  == Seq(Char \ {Comma, Quote}) \ {<<>>}
AttributeValue == {NoValue} \cup Seq(Char \ {Comma})

ASSUME GrammarAssumption ==
  /\ {Comma, Quote} \subseteq Char /\ Comma # Quote
  /\ Text \subseteq Seq(Char) /\ Garbage \subseteq Seq(Char)
  /\ AttrLists \subseteq Seq([name : AttributeName, value : AttributeValue])

VARIABLES
  source,   (* the list the string was written from                        *)
  text,     (* the property's string                                       *)
  query,    (* the name looked for, or All                                 *)
  at,       (* where the reader is in text                                 *)
  out,      (* the attributes the reader has copied                        *)
  phase

attributesVars == <<source, text, query, at, out, phase>>

Attribute(name, value) == [name |-> name, value |-> value]

-----------------------------------------------------------------------------
(* Writing.                                                                *)

(* Attributes without a value are left out.                                *)
Written(attrs) ==
  LET written[i \in 0 .. Len(attrs)] ==
        IF i = 0 THEN <<>>
        ELSE IF attrs[i].value = NoValue THEN written[i - 1]
        ELSE Append(written[i - 1], attrs[i])
  IN  written[Len(attrs)]

(* Faulty: every name is written bare.                                     *)
BarePair(a) == a.name \o a.value

(* Names of more than one character are quoted.                            *)
Pair(a) ==
  IF Len(a.name) > 1
  THEN <<Quote>> \o a.name \o <<Quote>> \o a.value
  ELSE a.name \o a.value

(* The string after each of the pairs, which are followed by a comma.      *)
Pairs(w) ==
  LET pairs[i \in 0 .. Len(w)] ==
        IF i = 0 THEN <<>> ELSE pairs[i - 1] \o Append(Pair(w[i]), Comma)
  IN  pairs

(* The last comma is overwritten with the terminator.  Where no pair is    *)
(* written nothing terminates the string that was allocated.  (No          *)
(* attributes at all give the empty string.)                               *)
AttributeStrings(attrs) ==
  LET w == Written(attrs)
  IN  CASE attrs = <<>> -> {<<>>}
        [] attrs # <<>> /\ w = <<>> -> Garbage
        [] OTHER -> {Front(Pairs(w)[Len(w)])}

-----------------------------------------------------------------------------
(* Reading.                                                                *)

(* strcspn: the first of the characters cs in s, from i on, or the end.    *)
Span(s, i, cs) ==
  Min({j \in i .. Len(s) : s[j] \in cs} \cup {Len(s) + 1})

(* The attribute in a non-empty, comma-free part of the string; a quoted   *)
(* name may lack its second quote.                                         *)
ParseAttribute(part) ==
  IF part[1] # Quote
  THEN Attribute(<<part[1]>>, Tail(part))
  ELSE LET nameEnd == Span(part, 2, {Quote, Comma})
       IN  Attribute(SubSeq(part, 2, nameEnd - 1),
                     SubSeq(part, nameEnd + 1, Len(part)))

(* The block of property_copyAttributeList: a slot for each attribute and  *)
(* one that stays null, then the bytes of all names and values.            *)
Slots(s) == Cardinality({i \in DOMAIN s : s[i] = Comma}) + 1

(* Faulty: a terminator for the name or for the value, not for both.       *)
StringBytesShort(s) == Len(s) + Slots(s)

StringBytes(s) == Len(s) + 2 * Slots(s)

BytesOf(attrs) ==
  LET bytes[i \in 0 .. Len(attrs)] ==
        IF i = 0 THEN 0
        ELSE bytes[i - 1] + Len(attrs[i].name) + 1 + Len(attrs[i].value) + 1
  IN  bytes[Len(attrs)]

-----------------------------------------------------------------------------
AttributesInit ==
  /\ source = NoList /\ text \in Text
  /\ query = All /\ at = 1 /\ out = <<>> /\ phase = "property"

AddProperty(attrs) ==
  /\ phase = "property"
  /\ source' = attrs
  /\ text' \in AttributeStrings(attrs)
  /\ UNCHANGED <<query, at, out, phase>>

(* property_copyAttributeList and property_copyAttributeValue              *)
BeginCopy(q) ==
  /\ phase = "property"
  /\ query' = q
  /\ at' = 1 /\ out' = <<>>
  /\ phase' = "iterate"
  /\ UNCHANGED <<source, text>>

(* The part of the string the reader is at, and the start of the next one. *)
End  == Span(text, at, {Comma})
Part == SubSeq(text, at, End - 1)

(* Faulty: the terminator is skipped like a comma.                         *)
AfterTerminator == End + 1

After == IF End > Len(text) THEN End ELSE End + 1

(* Faulty: the loop continues before it has advanced.                      *)
SkipEmptyInPlace ==
  /\ phase = "iterate" /\ at <= Len(text)
  /\ End = at
  /\ UNCHANGED attributesVars

SkipEmpty ==
  /\ phase = "iterate" /\ at <= Len(text)
  /\ End = at
  /\ at' = After
  /\ UNCHANGED <<source, text, query, out, phase>>

(* copyOneAttribute                                                        *)
CopyOneAttribute ==
  /\ phase = "iterate" /\ at <= Len(text)
  /\ End # at
  /\ query = All
  /\ out' = Append(out, ParseAttribute(Part))
  /\ at' = After
  /\ UNCHANGED <<source, text, query, phase>>

(* Faulty: a name that begins like the one looked for is taken for it.     *)
MatchesPrefix(name) == IsPrefix(query, name)

Matches(name) == name = query

(* findOneAttribute: the first match ends the iteration.                   *)
FindOneAttribute ==
  /\ phase = "iterate" /\ at <= Len(text)
  /\ End # at
  /\ query # All
  /\ IF Matches(ParseAttribute(Part).name)
     THEN out' = <<ParseAttribute(Part)>> /\ phase' = "done"
     ELSE UNCHANGED <<out, phase>>
  /\ at' = After
  /\ UNCHANGED <<source, text, query>>

EndOfString ==
  /\ phase = "iterate" /\ at > Len(text)
  /\ phase' = "done"
  /\ UNCHANGED <<source, text, query, at, out>>

Return ==
  /\ phase = "done"
  /\ phase' = "property"
  /\ query' = All /\ at' = 1 /\ out' = <<>>
  /\ UNCHANGED <<source, text>>

Iterate == SkipEmpty \/ CopyOneAttribute \/ FindOneAttribute \/ EndOfString

AttributesNext ==
  \/ \E attrs \in AttrLists : AddProperty(attrs)
  \/ \E q \in Query \cup {All} : BeginCopy(q)
  \/ Iterate \/ Return

(* The loop runs in the caller's thread.                                   *)
AttributesSpec ==
  AttributesInit /\ [][AttributesNext]_attributesVars
    /\ WF_attributesVars(Iterate)

-----------------------------------------------------------------------------
(* The reader never gets past the terminator: the code asserts             *)
(* attrs <= attrsend.                                                      *)
AttributesTypeOK ==
  /\ phase \in {"property", "iterate", "done"}
  /\ query \in Query \cup {All}
  /\ source \in AttrLists \cup {NoList}
  /\ at \in 1 .. Len(text) + 1

(* Every step of the copy stays within the block that was allocated before *)
(* the string was parsed, for whatever string.                             *)
WithinBlock ==
  /\ Len(out) <= Slots(text)
  /\ BytesOf(out) <= StringBytes(text)

(* Some attribute has a value, or there is no attribute.                   *)
Terminated == source # <<>> => Written(source) # <<>>

(* What class_addProperty was given is what property_copyAttributeList     *)
(* gives back: names, values and order, the null values left out.          *)
RoundTrip ==
  (phase = "done" /\ query = All /\ source # NoList /\ Terminated)
    => out = Written(source)

(* property_copyAttributeValue answers the value of the first attribute    *)
(* that has the name, and nothing only if there is none.                   *)
FindsFirst ==
  (phase = "done" /\ query # All /\ source # NoList /\ Terminated) =>
    LET w    == Written(source)
        hits == {i \in DOMAIN w : w[i].name = query}
    IN  out = IF hits = {} THEN <<>> ELSE <<w[Min(hits)]>>

(* Reading ends, whatever the string.                                      *)
Terminates == phase = "iterate" ~> phase = "done"
=============================================================================
