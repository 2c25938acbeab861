SPECIFICATION Spec
CONSTANTS
  Writer = {w1, w2}
  MaxSaves = 2
  MaxCrashes = 0
INVARIANT ConcurrentSavesDoNotCollide
