SPECIFICATION Spec
CONSTANTS
    t1 = t1
    None = None
    Threads = {t1}
    Requests = {"plain", "empty", "gone"}
    Run <- ProcRun
    Cwd <- ProcCwd
    Ttl <- ProcTtl
    Programs = {"ls", "brew"}
    Installed = {"ls"}
    Timeout = 2
    Cap = 2
    PipeCap = 1
    KillTool = TRUE
    Holders = {"none"}
    MaxOut = 4
    MaxClock = 1
INVARIANTS
    AbnormalExitIsError
