SPECIFICATION Spec
INVARIANT NewAcceptsValidOptions
