SPECIFICATION Spec
CONSTANTS
    MaxRequestBytes = 2
    Lines <- Utf8Lines
    Lockstep = FALSE
    MaxLines = 2
INVARIANTS
    MalformedLineContinues
