\* Two directories, one contract, one function; three events: gestures, one refresh
\* of the host's graph, one change of theme, one failure.
CONSTANTS
    vault = vault  deposit = deposit
    src = src  lib = lib
    None = None
    Ids <- MCIds
    Paths = {src, lib}
    Inside <- MCInside
    Hops = {0, 1}
    DefaultHops = 1
    Files = {"meta"}
    Tabs = {"protocol", "call"}
    Details = {"inspect"}
    Kind <- MCKind
    Calls = {deposit}
    DrawnFor <- MCDrawnFor
    Order <- MCOrder
    AutoOpened = {src, lib}
    Structural = FALSE
    MaxEvents = 3
    MaxRefreshes = 1
    MaxThemes = 1
SPECIFICATION Spec
CHECK_DEADLOCK FALSE
INVARIANTS
    ScreenIsCurrent
    NeverADeadEnd
    OpenIsWhatWasClicked
PROPERTIES
    CanvasIsRevealed
