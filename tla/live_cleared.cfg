SPECIFICATION Spec
CONSTANTS
    dry = dry
    apply = apply
    other = other
    Nothing = Nothing
    Runs = {dry, apply}
    Flags <- WidgetFlags
    Refs <- WidgetRefs
    Resource <- Resources
    Finalizers <- WidgetFinalizers
    Registrations <- TwoAPIs
    CRDGroups <- NoCRDs
    Hooks <- NoHooks
    Backends = {}
    URLs = {}
    EndpointSets <- Silent
    InitialHooks <- Unguarded
    Births <- WidgetBirths
    InitialObjects <- StuckWidgets
    Names <- WidgetName
    Matches <- Found
    Parsed <- Guessed
    Siblings <- WidgetSiblings
    Disturbances = {"create", "drop"}
    MaxForeign = 2
    MaxFaults = 0
PROPERTIES
    LiveIsNeverCleared
