\* A Put renames its temporary file while a Cleanup walks the directory.
CONSTANTS
    c1 = c1
    c2 = c2
    Content = {c1, c2}
    Size <- MCSize
    Temp = {t1}
    Putters = {w1}
    Scanners = {k1}
    Policies <- TightPolicy
    MaxTime = 0
    Damages = FALSE
    NoFile = NoFile
    NoTemp = NoTemp
    Numbers <- MCNumbers
    FoldsCase = TRUE
SPECIFICATION Spec
INVARIANT CleanupEnforcesPolicy
