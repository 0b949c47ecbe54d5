SPECIFICATION Spec
CONSTANTS
    Nodes <- MCNodes
    Root = "g"
    Tree <- MCTree
    Asked <- MCAsked
    Produces <- MCProduces
    Listing <- MCListing
    Ord <- MCOrd
    TopN = 3
    Unlimited = Unlimited
    None = None
INVARIANTS
    TypeOK
    QueryContinuesToken
    ScopeSound
    
    OptionsStopAtArguments
    BestMatches
    CommittedBeforeCursor
    GeneratorCostsOnlyItself
