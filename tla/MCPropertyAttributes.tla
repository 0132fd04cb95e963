------------------------ MODULE MCPropertyAttributes ------------------------
(* Strings of up to MaxText characters over a comma, a quote and two       *)
(* others, and lists of up to two attributes with names and values that    *)
(* the grammar allows: a value may contain a quote but no comma.           *)
EXTENDS PropertyAttributes

CONSTANTS a, b, MaxText, MaxAttrs

MCChar == {a, b, Comma, Quote}

MCText == UNION {[1 .. n -> MCChar] : n \in 0 .. MaxText}

Names  == {<<a>>, <<b>>, <<a, b>>, <<a, b, b>>}
Values == {NoValue, <<>>, <<a>>, <<Quote>>, <<Quote, b>>}

MCAttrLists ==
  UNION {[1 .. n -> {Attribute(n1, v) : n1 \in Names, v \in Values}] :
           n \in 0 .. MaxAttrs}

MCQuery   == Names \cup {<<>>}
MCGarbage == {<<>>, <<a>>}
=============================================================================
