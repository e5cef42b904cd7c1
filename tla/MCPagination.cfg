CONSTANT Vals = {0, 1, 2}
SPECIFICATION Spec
INVARIANT RoundTrip
CHECK_DEADLOCK FALSE
