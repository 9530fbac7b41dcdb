SPECIFICATION Spec
CONSTANTS
    dry = dry
    apply = apply
    other = other
    Nothing = Nothing
    Runs = {dry, apply, other}
    Flags <- AuditedFlags
    Refs <- WidgetRefs
    Resource <- Resources
    Finalizers <- WidgetFinalizers
    Registrations <- TwoAPIs
    CRDGroups <- NoCRDs
    Hooks <- NoHooks
    Backends = {}
    URLs = {}
    EndpointSets <- Silent
    InitialHooks <- Unguarded
    Births <- WidgetBirths
    InitialObjects <- StuckWidgets
    Names <- WidgetName
    Matches <- Found
    Parsed <- Guessed
    Siblings <- WidgetSiblings
    Disturbances = {"crash"}
    MaxForeign = 0
    MaxFaults = 1
INVARIANTS
    PinIsFaithful
    ReportIsTruthful
    AuditFileIsTruthful
    PreflightCoversTarget
