SPECIFICATION Spec
CONSTANTS
  root = root  a = a  b = b  x = x  y = y  z = z
  char = char  object = object
  NoClass = NoClass
  Class <- MCClass
  Root = root
  RootSize = 2
  Name <- MCName
  Type <- MCType
  TypeSize <- MCTypeSize
  TypeAlign <- MCTypeAlign
  Size <- MCSize
  Alignment <- MCAlignment
SYMMETRY Symmetry
INVARIANTS
  Fits
  NoOverlap
  OneIvarPerName
  InheritedInPlace
