CONSTANTS
    pBegin = pBegin
    pCommit = pCommit
    pGet = pGet
    pInclude = pInclude
    rA = rA
    rB = rB
    Names = {pBegin, pCommit, pGet, pInclude}
    Verbs <- MCVerbs
    Config <- MCConfig
    TxBegin = pBegin
    TxCommitOrRollback = pCommit
    Guarded = {pInclude}
    Scopes <- MCScopes
    NoError = NoError
    NoProc = NoProc
SPECIFICATION HSpec
INVARIANTS ResponseMatchesOutcome DataOnlyAfterCleanChain
PROPERTIES ImplementsGet
