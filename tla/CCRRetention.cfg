\* One writer of two originals of different size, a cleaner, an advancing clock.
CONSTANTS
    c1 = c1
    c2 = c2
    Content = {c1, c2}
    Size <- MCSize
    Temp = {t1}
    Putters = {w1}
    Scanners = {k1}
    Policies <- AgePolicies
    MaxTime = 2
    Damages = FALSE
    NoFile = NoFile
    NoTemp = NoTemp
    Numbers <- MCNumbers
    FoldsCase = TRUE
SPECIFICATION FairSpec
INVARIANT RetentionExact
PROPERTY CallsReturn
