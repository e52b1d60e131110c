\* t2 is the second shared call of the thread of t1; t3 locks exclusively.
CONSTANTS
  Latchers = {t1, t2, t3}
  Upgraders = {}
  CountMask = 7
  Outer = t1
  Inner = t2
SPECIFICATION NestedSpec
PROPERTY
  NestedGetsLatch
