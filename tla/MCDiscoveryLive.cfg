\* The server may stop and the number of syncs is bounded.
CHECK_DEADLOCK FALSE
SPECIFICATION Spec
CONSTANTS
    core = core
    apps = apps
    v1 = v1
    appsv1 = appsv1
    pods = pods
    namespaces = namespaces
    secrets = secrets
    configmaps = configmaps
    deployments = deployments
    GroupVersions <- MCGroupVersions
    Groups <- MCGroups
    CoreGroup = core
    GroupOf <- MCGroupOf
    Resources <- MCResources
    Catalog <- MCCatalog
    ResourceManager = TRUE
    MaxSyncs = 2
    Nothing = Nothing
    Blank = Blank
    Stray = Stray
    Clients = {c1}
PROPERTIES
    SyncCompletes
    ShutdownStopsWorker
