SPECIFICATION Spec
CONSTANTS
    Text = Text
    Url = Url
    OneAndAHalf = OneAndAHalf
    Truncated <- Halves
    Inputs <- AllInputs
INVARIANTS
    TypeOK
    NumbersAreAsWritten
    VerifiedCanBeCalled
    DocumentedPlansStart
    ShippedPlansRun
    ApiTestRunsOnce
CHECK_DEADLOCK FALSE
