SPECIFICATION FairSpec
CONSTANTS
  t1 = t1  t2 = t2  t3 = t3
  narrow = narrow  wide = wide  compiled = compiled
  id1 = id1  id2 = id2  id3 = id3
  NoName = NoName  NoDesc = NoDesc  Static = Static
  Thread <- MCThread
  Name <- MCName
  Id <- MCId
  Hash <- MCHash
  Wide <- MCWide
  Compiled <- MCCompiled
INVARIANTS
  NoDoubleFree
  NoLeak
  Published
PROPERTIES
  RegistersAtomically
  RegistersEventually
