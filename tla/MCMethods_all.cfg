SPECIFICATION FairSpec
CONSTANTS
  t1 = t1  t2 = t2  Super = Super  Sub = Sub  foo = foo  bar = bar
  i1 = i1  i2 = i2  i3 = i3  i4 = i4  i5 = i5
  NoThread = NoThread  NoImp = NoImp  Forward = Forward
  NotCached = NotCached  NoFrame = NoFrame
  Class <- MCClass
  Sel <- MCSel
  Lineage <- MCLineage
  Defined <- MCInherited
  Thread <- MCThread
  Imp <- MCImp2
  Registered <- MCSel
  Calls <- AllCalls
INVARIANTS
  CoherentUnlessRewritten
PROPERTY
  LockReleased
