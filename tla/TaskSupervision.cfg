SPECIFICATION FairSpec
INVARIANTS
    TypeOK
    OkMeansAsked
    ErrorsAreCauses
PROPERTIES
    ExitEndsAll
CHECK_DEADLOCK FALSE
