SPECIFICATION Spec
CONSTANTS
    IllegalNames = {}
    Global = "G"
    Custs = {"c"}
    Docs <- MCDocs
    Setups <- MCSetups
    Creations <- MCCreations
    Raw <- MCRaw
    Servers <- MCServers
    Vms <- MCVms
    MaxEntity = 4
    MaxId = 2
    MaxRequests = 1
    MaxEvents = 2
INVARIANTS
    NotOverwritten
CHECK_DEADLOCK FALSE
