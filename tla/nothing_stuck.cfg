SPECIFICATION Spec
CONSTANTS
    dry = dry
    apply = apply
    other = other
    Nothing = Nothing
    Runs = {dry}
    Flags <- WidgetFlags
    Refs <- WidgetRefs
    Resource <- Resources
    Finalizers <- WidgetFinalizers
    Registrations <- TwoAPIs
    CRDGroups <- NoCRDs
    Hooks <- NoHooks
    Backends = {}
    URLs = {}
    EndpointSets <- Silent
    InitialHooks <- Unguarded
    Births <- WidgetBirths
    InitialObjects <- StuckWidgets
    Names <- WidgetName
    Matches <- Found
    Parsed <- Guessed
    Siblings <- WidgetSiblings
    Disturbances = {}
    MaxForeign = 0
    MaxFaults = 1
PROPERTIES
    NothingStuckIsTrue
