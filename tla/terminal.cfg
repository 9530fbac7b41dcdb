SPECIFICATION FairSpec
CONSTANTS
    dry = dry
    apply = apply
    other = other
    Nothing = Nothing
    Runs = {apply}
    Flags <- TerminalFlags
    Refs <- NamespaceRefs
    Resource <- Resources
    Finalizers <- NamespaceFinalizers
    Registrations <- TwoAPIs
    CRDGroups <- ExampleCRD
    Hooks <- Guards
    Backends = {"guard"}
    URLs = {}
    EndpointSets <- DeadOrAlive
    InitialHooks <- MayBeGuarded
    Births <- NamespaceBirths
    InitialObjects <- StuckNamespaces
    Names <- TeamName
    Matches <- Found
    Parsed <- Guessed
    Siblings <- NamespaceSiblings
    Disturbances = {"conditions", "crd", "webhook", "endpoints", "drop", "touch", "crash"}
    MaxForeign = 1
    MaxFaults = 1
INVARIANTS
    OnlyConfirmedIsApplied
    ReportIsTruthful
PROPERTIES
    GoesForward
    EveryRunEnds
