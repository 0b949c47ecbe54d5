SPECIFICATION Spec
CONSTANTS
    Commands <- MCCommands
    Typed <- MCTyped
    Cwds = {"/a", "/b"}
    NoCwd = NoCwd
    NoTs = NoTs
    NoSuggestion = NoSuggestion
    HostWindows <- MCWindows
    WindowLimit = 2
    Seconds = {1, 2}
    MaxRows = 3
INVARIANTS
    TypeOK
    SuggestionIsRecorded
    BestContinuation
    LastRecordedSuggested
