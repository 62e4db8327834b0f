CONSTANTS
  Byte <- MCByte
  Sizes <- MCSizes
  Blocks = 2
  BlockBytes = 2
  MaxResets = 1
  MaxFolded = 1
SPECIFICATION Spec
INVARIANT TypeOK
INVARIANT CachesCurrent
INVARIANT FoldedCurrent
INVARIANT BlocksDistinct
PROPERTY ImplementsClearableMemory
