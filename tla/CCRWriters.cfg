\* Two writers of one original, a cleaner, crashes, I/O errors and damage.
CONSTANTS
    c1 = c1
    c2 = c2
    Content = {c1}
    Size <- MCSize
    Temp = {t1, t2}
    Putters = {w1, w2}
    Scanners = {k1}
    Policies <- TightPolicy
    MaxTime = 0
    Damages = TRUE
    NoFile = NoFile
    NoTemp = NoTemp
    Numbers <- MCNumbers
    FoldsCase = TRUE
SPECIFICATION Spec
SYMMETRY Symmetry
INVARIANTS GetHonest NoLeakedTemp MarkersHonest
PROPERTY ImplementsContract
