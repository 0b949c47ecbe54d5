SPECIFICATION Spec
CONSTANTS
    t1 = t1
    t2 = t2
    None = None
    Threads = {t1, t2}
    Requests = {"short", "long"}
    Run <- CacheRun
    Cwd <- CacheCwd
    Ttl <- CacheTtl
    Programs = {"git", "ls"}
    Installed = {"git", "ls", "rm"}
    Timeout = 1
    Cap = 1
    PipeCap = 1
    KillTool = FALSE
    Holders = {"none"}
    MaxOut = 0
    MaxClock = 2
SYMMETRY ThreadSymmetry
INVARIANTS
    HitJustified
    CacheInv
PROPERTIES
    KeepsContract
