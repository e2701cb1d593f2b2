CONSTANTS
    e1 = e1
    e2 = e2
    Garbage = Garbage
    Extents <- MC_Extents
    PerPage = 2
    Addrs = {1, 2, 3}
    MaxLinked = 1
    MaxDefer = 5
SPECIFICATION Spec
SYMMETRY Symmetry
INVARIANT TypeOK
INVARIANT DeferredFreedOnce
