SPECIFICATION Spec
CONSTANTS
    Kinds <- AllKinds
    Queries <- OutputContexts
    kMaxArrayElements = 2
    kMaxPNextNodes = 2
INVARIANTS
  Understood
  ShortRefused
  NoClientHandle
  HiddenStaysHidden
