SPECIFICATION Spec
CONSTANTS
    dry = dry
    apply = apply
    other = other
    Nothing = Nothing
    Runs = {dry, apply}
    Flags <- WidgetFlags
    Refs <- WidgetRefs
    Resource <- Resources
    Finalizers <- WidgetFinalizers
    Registrations <- TwoAPIs
    CRDGroups <- NoCRDs
    Hooks <- NoHooks
    Backends = {}
    URLs = {}
    EndpointSets <- Silent
    InitialHooks <- Unguarded
    Births <- WidgetBirths
    InitialObjects <- AnyWidgets
    Names <- WidgetName
    Matches <- Found
    Parsed <- Guessed
    Siblings <- WidgetSiblings
    Disturbances = {"create", "delete", "add", "drop", "touch", "reown", "apiservice"}
    MaxForeign = 2
    MaxFaults = 0
INVARIANTS
    TypeOK
    OnlyConfirmedIsApplied
    ExitZeroClearsMetadata
PROPERTIES
    LeastBlastRadius
    Remediates
