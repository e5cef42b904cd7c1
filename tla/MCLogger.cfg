CONSTANTS
    Levels = {LDEBUG, LINFO, LWARNING}
    LDEBUG = LDEBUG
    LINFO = LINFO
    LWARNING = LWARNING
    Modules = {mQuery, mCore}
    mQuery = mQuery
    mCore = mCore
    NoLogger = NoLogger
SPECIFICATION Spec
INVARIANTS ModulesFollowLevel CallsReachLogger
