SPECIFICATION HSpec
CONSTANTS
    dry = dry
    apply = apply
    other = other
    Nothing = Nothing
    Runs = {dry, apply}
    Flags <- NamespaceFlags
    Refs <- NamespaceRefs
    Resource <- Resources
    Finalizers <- NamespaceFinalizers
    Registrations <- TwoAPIs
    CRDGroups <- ExampleCRD
    Hooks <- NoHooks
    Backends = {}
    URLs = {}
    EndpointSets <- Silent
    InitialHooks <- Unguarded
    Births <- NamespaceBirths
    InitialObjects <- AnyNamespaces
    Names <- TeamName
    Matches <- Found
    Parsed <- Guessed
    Siblings <- NamespaceSiblings
    Disturbances = {"conditions", "crd", "apiservice", "touch", "reown"}
    MaxForeign = 1
    MaxFaults = 1
INVARIANTS
    FinalizeComesLast
    QuietApplyClears
PROPERTIES
    LeastBlastRadius
    RecoveredOwnerAborts
    OrphanWasOwned
