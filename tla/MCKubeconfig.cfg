\* Every invocation ends.
CHECK_DEADLOCK FALSE
CONSTANTS
    p1 = p1
    p2 = p2
    p3 = p3
    root = root
    hub = hub
    a = a
    b = b
    Root = root
    RootCluster = hub
    None = None
    Invocations = {p1, p2, p3}
    Names = {root, hub, a, b}
SPECIFICATION Safety
SYMMETRY InvocationSymmetry
INVARIANTS
    TypeOK
    LockExcludes
    CurrentContextExists
    NestingOnlyByCollision
PROPERTY
    ImplementsStore
