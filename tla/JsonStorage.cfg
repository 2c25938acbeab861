SPECIFICATION FairSpec
CONSTANTS
  Writer = {w1, w2, w3}
  MaxSaves = 3
  MaxCrashes = 1
INVARIANTS LoadsAWholeDocument RenamesOwnDocument BackupWasInPlace
PROPERTIES OnlyTheHolderReplaces 
