SPECIFICATION Spec
INVARIANTS
    AnswersAreTrue
PROPERTIES
    ServicesProgress
CHECK_DEADLOCK FALSE
