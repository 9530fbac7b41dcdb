SPECIFICATION Spec
CONSTANTS
    Questions <- AllQuestions
    Groups <- MCGroups
    Strategies = {"strict", "score"}
    MaxRegistrations = 3
    MaxCRDs = 2
INVARIANTS
    DeadNeedsHardProof
    CRDsComeFirst
    NamespaceDeadIsProven
CHECK_DEADLOCK FALSE
