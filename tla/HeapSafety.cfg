SPECIFICATION Spec
CONSTANTS
    a1 = a1
    a2 = a2
    Thread <- MCThread
    SIZEOF_STRUCT_MEM = 3
    MIN_SIZE = 3
    mem_size_aligned = 21
    Sizes <- MCSizes
INVARIANTS
    HeapOK
    FoundIfThere
PROPERTY
    ImplementsAllocator
SYMMETRY Symmetry
