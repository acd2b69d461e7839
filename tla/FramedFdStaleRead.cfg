CONSTANTS
  MaxLinks = 1
  MaxReliable = 1
SPECIFICATION Spec
INVARIANT NoReadAfterClose
