SPECIFICATION Spec
CONSTANTS
  main = main  other = other  Root = Root  A = A  B = B
  p1 = p1  p2 = p2  p3 = p3  Copying = Copying  Coding = Coding
  None = None
  Main = main
  Thread <- MCThread
  Class <- MCClass
  Compiled <- MCCompiled
  Struct <- MCStruct
  Id <- MCId
  MaxSlots = 2
SYMMETRY Symmetry
INVARIANTS
  WithinBlock
  ListsLive
  ReportedWritten
  SpareSlot
  LearnedCountExact
  IdentityAgrees
