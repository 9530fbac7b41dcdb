SPECIFICATION FairSpec
CONSTANTS
    Nothing = Nothing
    Refs <- MCRefs
    Resource <- MCResource
    Finalizers <- MCFinalizers
    Registrations <- OneAPI
    CRDGroups <- NoCRDs
    Hooks <- MCHooks
    Backends <- MCBackends
    URLs <- MCURLs
    EndpointSets <- Slices
    InitialHooks <- OneHook
    Births <- MCBirths
    InitialObjects <- Stores
    Catalog <- MCCatalog
    Strategy = "strict"
    Disturbances = {"drop", "apiservice"}
    MaxForeign = 1
    MaxFaults = 1
INVARIANTS
    ScanTypeOK
    TokenIffItWorks
PROPERTIES
    NothingHidden
    ServedIsNeverDead
    ScanEnds
