\* Budgets from a page that holds one view to one that holds them all; a cap that the
\* larger views exceed, and one that only the whole map does.
CONSTANTS
    src = src
    lib = lib
    ext = ext
    A = A
    B = B
    C = C
    a = a
    b = b
    c = c
    v = v
    q = q
    None = None
    Graphs <- MCGraphs
    Parent <- MCParent
    Budgets = {10, 20, 35, 50, 70, 100, 130, 250}
    Openings <- MCOpenings
    Hops = {0, 1}
    DefaultHops = 0
    Caps = {6, 12}
    MaxClicks = 4
SPECIFICATION Spec
CHECK_DEADLOCK FALSE
INVARIANTS
    NodeClicksAreAnswered
    OmittedIsWhatIsMissing
    BytesAreWhatIsCarried
