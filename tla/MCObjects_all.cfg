SPECIFICATION Spec
CONSTANTS
  t1 = t1  t2 = t2  o1 = o1  o2 = o2  o3 = o3
  Point = Point  Point3D = Point3D  Flagged = Flagged  x = x  z = z
  NoClass = NoClass  NoFrame = NoFrame
  Thread <- MCThread
  Object <- MCObject
  Class <- MCClass
  Name <- MCName
  Offset <- MCOffset
  Size <- MCSize
  Header = 8
  Word = 4
  Extra <- MCExtra
SYMMETRY Symmetry
INVARIANTS
  IvarsWithin
  CopyWithin
  IndexedWithin
