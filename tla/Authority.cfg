SPECIFICATION AuthoritySpec
CONSTANTS
    Device = {1, 2}
    Claims <- MCClaims
    MaxToken = 3
    MaxEntry = 1
    MaxTime = 1
    MaxChainDepth = 3
    ManageGrant = "manage:grant"
    ManageRevoke = "manage:revoke"
    AnyCapability = "any"
    Unlimited = 9
    Resource <- MCResource
    Key = {"k", "l", "m", "n"}
    Cost <- MCCost
    Budget = 3
    Computation = {1, 2, 3}
    LastInstant = 1
INVARIANTS
    VerifiedIsWithinItsChain
    
    CacheKeepsItsBooks
    OneAnswerPerRequest

    
CHECK_DEADLOCK FALSE
