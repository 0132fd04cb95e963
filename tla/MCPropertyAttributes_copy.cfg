SPECIFICATION AttributesSpec
CONSTANTS
  a = a  b = b
  Comma = Comma  Quote = Quote
  NoValue = NoValue  NoList = NoList  All = All
  MaxText = 5
  MaxAttrs = 2
  Char <- MCChar
  Text <- MCText
  AttrLists <- MCAttrLists
  Query <- MCQuery
  Garbage <- MCGarbage
INVARIANTS
  AttributesTypeOK
  WithinBlock
  RoundTrip
  FindsFirst
PROPERTY
  Terminates
