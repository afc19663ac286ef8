SPECIFICATION Spec
CONSTANTS
    Ids = {i1}
    Refs = {password}
    Creds = {x}
    Bodies = {open, locked}
    Locked = {locked}
    None = None
    Callers = {core}
    MaxRequests = 1
    MaxFaults = 2
    MaxCrashes = 2
    LegacyIds = {i1}
    LegacyBody = locked
    LegacyRefs = {password}
    LegacyCred = x
    Settings = {factory, custom}
    Default = factory
    Corrupt = Corrupt
    Invalid = Invalid
    MaxStarts = 3
    MaxDamages = 2
CHECK_DEADLOCK FALSE
INVARIANT StartupInv
PROPERTIES DamageDoesNotStopStartup UnreadableIsBackedUp LegacyIsNotLost
