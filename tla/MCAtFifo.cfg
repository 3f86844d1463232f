SPECIFICATION Spec
CONSTANTS
  Capacity = 2
  MaxDepth = 3
  MaxItems = 4
INVARIANTS
  IInv
  SlotExclusion
  ReadableComplete
  NothingStranded
PROPERTIES
  ImplementsFifo
  NestedNullIsTrue
