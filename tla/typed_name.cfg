SPECIFICATION Spec
CONSTANTS
    dry = dry
    apply = apply
    other = other
    Nothing = Nothing
    Runs = {apply}
    Flags <- TypedFlags
    Refs <- TwinRefs
    Resource <- Resources
    Finalizers <- WidgetFinalizers
    Registrations <- TwoAPIs
    CRDGroups <- NoCRDs
    Hooks <- NoHooks
    Backends = {}
    URLs = {}
    EndpointSets <- Silent
    InitialHooks <- Unguarded
    Births <- TwinBirths
    InitialObjects <- StuckTwins
    Names <- WidgetName
    Matches <- FoundTwins
    Parsed <- Guessed
    Siblings <- TwinSiblings
    Disturbances = {}
    MaxForeign = 0
    MaxFaults = 1
INVARIANTS
    ConfirmedIsShown
