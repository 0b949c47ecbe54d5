SPECIFICATION Spec
CONSTANTS
    Chars <- MCChars
    Slash = 2
    Names <- MCNames
    Dirs = 2
    Paths <- MCPaths
    RuleSets <- MCRuleSets
    Specs <- MCSpecs
    Requests <- MCRequests
    NoCommand = 20
    SubcommandTypo = 30
    Limit = 2
    MaxChanges = 2
    None = None
INVARIANT
    NearestFirst
