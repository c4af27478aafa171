CONSTANTS
    c1 = c1
    c2 = c2
    Torn = Torn
    Boot = Boot
    Missing = Missing
    Ext = Ext
    Gone = Gone
    Callers <- MCOneCaller
    Ops <- MCOpsMigrate
    MaxId = 3
    FsFails = TRUE
    Crashes = FALSE
SPECIFICATION Spec
PROPERTY MigrationRollsBack
