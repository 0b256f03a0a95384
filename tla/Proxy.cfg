\* Four user requests for one slot; two may wait, so one may be refused.
CONSTANTS
    u1 = u1
    u2 = u2
    u3 = u3
    u4 = u4
    s1 = s1
    s2 = s2
    user = user
    None = None
    Requests = {u1, u2, u3, u4}
    Tiers <- UserTier
    Tier <- OfUsers
    Limited <- UserTier
    Slots <- OneSlot
    MaxPending <- TwoMayWait
SYMMETRY UsersAndSlotsAlike
SPECIFICATION Spec
INVARIANTS
    WaitersAreCounted
    SlotsAreConserved
    NoIdleSlot
    NobodyIsStranded
    MaintenanceHonoured
PROPERTIES
    ImplementsAdmission
