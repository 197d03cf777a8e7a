CONSTANTS
    east = east
    west = west
    ns1 = ns1
    ns2 = ns2
    apps = apps
    other = other
    Core = Core
    None = None
    Clusters <- MCClusters
    Items <- MCItems
    Queries <- MCQueries
    Catalog <- MCCatalog
    Limit = 3
SPECIFICATION Spec
INVARIANTS
    TypeOK
    ListIsComplete
    ListMatchesRequest
    RowsFitHeaders
    AgesAreValid
    PanicsExplained
