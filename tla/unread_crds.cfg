SPECIFICATION Spec
CONSTANTS
    Questions <- OwnedQuestions
    Groups <- MCGroups
    Strategies = {"strict", "score"}
    MaxRegistrations = 2
    MaxCRDs = 2
INVARIANTS
    UnreadCRDsNeverMakeDead
CHECK_DEADLOCK FALSE
