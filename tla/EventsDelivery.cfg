SPECIFICATION FairSpec
CONSTANTS
    Writers = {w1, w2}
    Platforms = {"desktop", "android"}
    RingCap = 2
    LogMax = 2
    Page = 1
    ShowCap = 2
    MaxStates = 2
    MaxAndroidStates = 0
    MaxLogs = 3
    MaxPulls = 2
CHECK_DEADLOCK FALSE
INVARIANTS LogInv ClearedStayGone
PROPERTY UiCatchesUp
