SPECIFICATION StoreSpec
CONSTANTS
    Ids = {i1, i2}
    Refs = {password, privateKey}
    Creds = {x, y}
    Bodies = {open, locked}
    Locked = {locked}
    None = None
    Callers = {c1}
    MaxRequests = 3
    MaxFaults = 1
    MaxCrashes = 1
CHECK_DEADLOCK FALSE
INVARIANTS StoreInv SecretsAreOwned
PROPERTY OnlyItsColumn
