SPECIFICATION Spec
CONSTANTS
  t1 = t1  t2 = t2  root = root  A = A  B = B  C = C  foo = foo
  f1 = f1  f2 = f2  Builtin = Builtin
  NoThread = NoThread  NoNode = NoNode  NotCached = NotCached
  NoHandler = NoHandler
  Root = root
  Thread <- MCThread
  Class <- MCClass
  Compiled <- MCCompiled
  Rank <- MCRank
  Parent <- MCParent
  Sel <- MCSel
  Defines <- MCDefines
  Sent <- MCSent
  Handler <- MCHandler
SYMMETRY Symmetry
INVARIANTS
  TypeOK
  MetaParallel
  SuperidFollows
  CachesFollow
  ForwardIsDefault
