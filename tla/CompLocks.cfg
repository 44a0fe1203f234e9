SPECIFICATION FairSpec
CONSTANTS
    Comps = {c1, c2}
    Durations = {1, 2}
    MaxNow = 3
    MaxGen = 3
INVARIANT LockAgreement
PROPERTIES HeldAsGranted ExpiredIsReaped
