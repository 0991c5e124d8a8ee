SPECIFICATION Spec
CONSTANTS
    Conn = {c1, c2}
    Sub = {s1, s2}
    Configured = 2
    PoolMax = 2
    WordBits = 3
    Delay = 1
    MaxPeers = 3
    MaxTime = 3
SYMMETRY Symm
INVARIANTS HeldIsLive BitmapCovers
CHECK_DEADLOCK FALSE
