\* Three foos make a chain with an inner element; with three threads each foo has an
\* owner while the third one releases the last foo of the chain.
CONSTANTS
  Thread = {t1, t2, t3}
  Foo = {f1, f2, f3}
  Ids = {0, 2}
  HASH_NUMBER = 2
  NULL = NULL
SPECIFICATION Spec
SYMMETRY Symmetry
INVARIANTS RefCount MemorySafe MissIsReal NoLeak CallsGoOn
