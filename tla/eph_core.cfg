CONSTANTS
    m1 = m1
    m2 = m2
    c1 = c1
    c2 = c2
    Msgs <- MCMsgs
    Callers <- MCOneCaller
    Durations <- MCDurations
    MaxTime = 5
    TaskSlots = 1
    SqlErrors = FALSE
    Sent <- MCSent
    Kept <- MCKept
    Chats <- MCChats
    Special <- MCSpecial
    DeleteDeviceAfter = 2
SPECIFICATION Spec
INVARIANT TypeOK
INVARIANT WakeArmed
PROPERTY ImplementsExpiry
