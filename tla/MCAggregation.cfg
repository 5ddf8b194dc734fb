CONSTANTS
    src = src
    lib = lib
    deep = deep
    test = test
    A = A
    B = B
    I = I
    T = T
    a = a
    b = b
    c = c
    i = i
    t = t
    v = v
    q = q
    None = None
    Parent <- MCParent
    Graphs <- MCGraphs
    Requests <- MCRequests
SPECIFICATION Spec
INVARIANTS
    CallSitesConserved
    OpensAsFarAsItFits
    ClosingIsAWayOut
    OneStory
CHECK_DEADLOCK FALSE
