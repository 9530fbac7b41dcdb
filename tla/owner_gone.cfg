SPECIFICATION Spec
CONSTANTS
    Questions <- OwnedQuestions
    Groups <- MCGroups
    Strategies = {"strict", "score"}
    MaxRegistrations = 2
    MaxCRDs = 2
INVARIANTS
    OwnerIsGone
CHECK_DEADLOCK FALSE
