SPECIFICATION Spec
INVARIANTS CallsExist KeepsLevel
