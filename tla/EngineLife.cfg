SPECIFICATION FairSpec
CONSTANTS
    Threads = {t1, t2}
    dirD = dirD
    dirE = dirE
    DataDirs = {dirD, dirE}
    Relative = relative
    SpecFiles = {1, 2}
    RuleFiles = {3}
    Contents <- MCContents
    Writes <- MCWrites
    Disks <- MCDisks
    Envs <- MCEnvs
    Requests <- MCRequests
    MAX_REQUEST_BYTES = 2
    MaxChanges = 1
    MaxPanics = 1
    None = None
INVARIANTS
    TypeOK
    AnswersFromOneEngine
    LoadsWhatIsThere
    FirstFailureReported
PROPERTIES
    EveryCallReturns
