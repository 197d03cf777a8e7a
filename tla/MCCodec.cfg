\* Every call returns.
CHECK_DEADLOCK FALSE
CONSTANTS
    Core = Core
    None = None
    Kinds = {"ConfigMap", "Deployment"}
    Groups = {Core, "apps"}
    Fields = {"spec", "status"}
SPECIFICATION Spec
INVARIANTS
    TypeOK
    ReturnedObjectsAreWhole
    StrictErrorsAreComplete
