CONSTANTS
    NULL = NULL
    one = one
    two = two
    three = three
    Vbufs <- MCVbufs
    PktLen <- MCPktLen
SPECIFICATION Spec
INVARIANTS
    DescConservation
    BuffersComeBack
PROPERTIES
    ImplementsFifo
