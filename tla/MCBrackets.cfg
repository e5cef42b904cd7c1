CONSTANTS
    Chars = {"[", "]", "a", "b"}
    MaxLen = 5
SPECIFICATION Spec
INVARIANT MatchesContract
CHECK_DEADLOCK FALSE
