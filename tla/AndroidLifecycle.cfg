SPECIFICATION FairSpec
CONSTANTS
    MaxTaps = 2
    MaxOff = 2
    MaxFaults = 2
    TapModes = {"vpn", "proxy"}
CHECK_DEADLOCK FALSE
INVARIANTS HostOK DisconnectReleasesTun HeldTunIsTracked
PROPERTIES ImplementsSwitch DisconnectTakesEffect
