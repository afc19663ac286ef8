SPECIFICATION Spec
CONSTANTS
    Stored = {"socks5"}
    MaxChanges = 2
CHECK_DEADLOCK FALSE
INVARIANTS NoBypass Ipv6StaysOff ImportInv NeverWeakened AcceptedLinksRoundTrip
