SPECIFICATION Spec
INVARIANTS
    TypeOK
    OkMeansAsAsked
    ViolationIsDeserved
    SniOffIsPermanent
