SPECIFICATION Spec

PROPERTIES ServeGoroutineEnds ServeFailureReturns
