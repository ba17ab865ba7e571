CONSTANTS
    p1 = p1
    p2 = p2
    h1 = h1
    h2 = h2
    PRs = {p1}
    Number <- NumberOf
    Handlers = {h1, h2}
    MaxCycles = 1
    Strict = TRUE
    MaxHead = 1
    MaxInbox = 1
    NoPR = NoPR
    NoRow = NoRow
SPECIFICATION Spec
SYMMETRY Symmetry
PROPERTIES DroppedIsHandedBack
