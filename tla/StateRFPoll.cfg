SPECIFICATION FairSpec
CONSTANTS
    Comps = {c1}
    Insts = {i1, i2}
    Targets = {"Off", "Standby"}
    Discovered = {"Ready", "none"}
    MaxJobs = 2
    MaxCrashes = 1
    Misses = FALSE
INVARIANTS ListedIsPolling OneLivePoller
PROPERTIES PollersStop OrphansAreTaken
