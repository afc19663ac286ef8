SPECIFICATION Spec
CONSTANTS
    Ids = {i1}
    Refs = {password}
    Creds = {x}
    Bodies = {open, locked}
    Locked = {locked}
    None = None
    Callers = {core}
    MaxRequests = 1
    MaxFaults = 0
    MaxCrashes = 1
    LegacyIds = {i1}
    LegacyBody = open
    LegacyRefs = {password}
    LegacyCred = x
    Settings = {factory, custom}
    Default = factory
    Corrupt = Corrupt
    Invalid = Invalid
    MaxStarts = 2
    MaxDamages = 0
CHECK_DEADLOCK FALSE
PROPERTY MigrationIsOneTime
