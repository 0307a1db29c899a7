\* Four descriptors: the free list takes every order of up to four slots.
CONSTANTS
    Fds = {f1, f2, f3, f4}
    Names = {n1, n2}
    INT_MAX = 5
SPECIFICATION Spec
SYMMETRY Symmetry
INVARIANTS FreeListExact OneOwner Bounded
PROPERTY ImplementsHandleAlloc
