CONSTANTS
    m1 = m1
    m2 = m2
    c1 = c1
    c2 = c2
    Msgs <- MCMsgs
    Callers <- MCTwoCallers
    Durations <- MCDurations
    MaxTime = 5
    TaskSlots = 3
    SqlErrors = FALSE
    Sent <- MCSent
    Kept <- MCKept
    Chats <- MCChats
    Special <- MCSpecial
    DeleteDeviceAfter = 0
SPECIFICATION Spec
INVARIANT NoOrphanWakeTask
