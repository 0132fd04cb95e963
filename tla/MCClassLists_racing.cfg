SPECIFICATION Spec
CONSTANTS
  t1 = t1  t2 = t2  Super = Super  Sub = Sub
  x = x  y = y  p = p
  NoAttributes = NoAttributes  NoFrame = NoFrame
  Class <- MCClass
  Item <- MCItem
  Attributes <- MCAttributes
  Lineage <- MCLineage
  Compiled <- MCCompiled
  Thread <- MCThread
  Registrar <- MCThread
SYMMETRY Symmetry
INVARIANTS
  TypeOK
  OncePerRegistrar
  RewritesItsProperty
  BlockExact
