\* The process may end for good, and the number of syncs is bounded.
CHECK_DEADLOCK FALSE
SPECIFICATION LifeSpec
CONSTANTS
    core = core
    apps = apps
    v1 = v1
    appsv1 = appsv1
    pods = pods
    namespaces = namespaces
    secrets = secrets
    configmaps = configmaps
    deployments = deployments
    GroupVersions <- MCGroupVersions
    Groups <- MCGroups
    CoreGroup = core
    GroupOf <- MCGroupOf
    Resources <- MCResources
    Catalog <- MCShortCatalog
    ResourceManager = TRUE
    MaxSyncs = 1
    Nothing = Nothing
    Blank = Blank
    Stray = Stray
    Clients = {c1}
    Contexts = {"TODO", "cancellable"}
    MaxLives = 2
INVARIANTS
    LifeTypeOK
    ServingIsNeverReady
PROPERTIES
    RefusedOnlyWhenYoung
    EveryLifePublishes
    ApiPromiseKept
    SignalEnds
