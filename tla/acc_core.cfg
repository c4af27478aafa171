CONSTANTS
    c1 = c1
    c2 = c2
    Torn = Torn
    Boot = Boot
    Missing = Missing
    Ext = Ext
    Gone = Gone
    Callers <- MCTwoCallers
    Ops <- MCOpsNoMigrate
    MaxId = 3
    FsFails = FALSE
    Crashes = FALSE
SPECIFICATION Spec
INVARIANT TypeOK
INVARIANT RegistryInvariant
INVARIANT MapWithinRegistry
INVARIANT SelectedWhenNonEmpty
INVARIANT NoIoAfterRemove
INVARIANT MapMatchesRegistry
PROPERTY RemoveReselectsSmallest
