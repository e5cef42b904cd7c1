CONSTANTS
    pBegin = pBegin
    pCreate = pCreate
    pCommit = pCommit
    pGet = pGet
    sA = sA
    sB = sB
    Names = {pBegin, pCreate, pCommit, pGet}
    Verbs <- MCVerbs
    Config <- MCConfig
    TxBegin = pBegin
    TxCommitOrRollback = pCommit
    Guarded = {pCreate, pGet}
    Scopes <- MCScopes
    NoError = NoError
    NoProc = NoProc
SPECIFICATION Spec
INVARIANTS CleanRunNotRolledBack
