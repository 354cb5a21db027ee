SPECIFICATION FairSpec
CONSTANTS
    u1 = u1
    c1 = c1
    c2 = c2
    NoUser = NoUser
    MaxLogins = 2
    User <- MCUser
    OwnerOf <- MCOwnerOf
    Slot <- MCSlot
    MaxSaves = 1
    MaxVisits = 1
CHECK_DEADLOCK FALSE
INVARIANTS
    NoShellWithoutSession
    SignedOutStaysOut
    ScreensShowWhatWasSaved
PROPERTIES
    SigningOutEnds
    RejectedSessionsEnd
