CONSTANTS
    Goroutines = {g1, g2}
    g1 = g1
    g2 = g2
    Models = {mBlog, mPost}
    mBlog = mBlog
    mPost = mPost
    MaxRegister = 3
    NoController = NoController
SPECIFICATION Spec
INVARIANTS MappedAfterRegister ConfiguredFromDefault
CHECK_DEADLOCK FALSE
