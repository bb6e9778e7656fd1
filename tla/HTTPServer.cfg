\* Three connections for one descriptor.
SPECIFICATION FairSpec
CONSTANTS
  Conns = {c1, c2, c3}
  FdLimit = 1
  BaseDelay = 2
  MaxDelay = 5
INVARIANTS
  DispatchedWhole
  NoDescriptorLeaked
PROPERTIES
  ConnectionsEnd
  BacklogServed
