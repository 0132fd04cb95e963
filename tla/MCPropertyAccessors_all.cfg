SPECIFICATION Spec
CONSTANTS
  t1 = t1  t2 = t2  name = name  a = a  b = b
  c1 = c1  c2 = c2  c3 = c3  c4 = c4  c5 = c5
  Nil = Nil  NoFrame = NoFrame
  Thread <- MCThread
  Ivar <- MCIvar
  Value <- MCValue
  Copy <- MCCopy
  Calls <- AllCalls
SYMMETRY Symmetry
INVARIANTS
  ReferencesAccounted
