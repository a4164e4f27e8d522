\* One window, one other caller, three children.
CONSTANTS
    Callers = {w1, w2, u1}
    Slots = {w1, w2}
    Children = {p1, p2, p3}
    None = None
    Doctor = Doctor
SPECIFICATION DesktopFairSpec
INVARIANTS StateTruthful NoOrphan AloneNoOrphan
PROPERTIES RunningIsHonest ClickAnswered
CHECK_DEADLOCK FALSE
