SPECIFICATION FairSpec
CONSTANTS
    MaxRequestBytes = 2
    Lines <- ShortLines
    Lockstep = TRUE
    MaxLines = 2
PROPERTIES
    OneResponsePerLine
