SPECIFICATION Spec
INVARIANTS
    ConfiguredAuthIsUsed
