\* Three user requests for one slot, and the order in which they get it.
CONSTANTS
    u1 = u1
    u2 = u2
    u3 = u3
    u4 = u4
    s1 = s1
    s2 = s2
    user = user
    None = None
    Requests = {u1, u2, u3}
    Tiers <- UserTier
    Tier <- OfUsers
    Limited <- UserTier
    Slots <- OneSlot
    MaxPending <- TwoMayWait
SPECIFICATION Spec
PROPERTIES
    FifoOrder
