SPECIFICATION GuestFairSpec
CONSTANTS
    None = None
    Entries = {e1, e2}
    Direct = {e1}
    Calls = {c1}
    Ticks = {t1, t2}
    Tags = {k}
    MaxChanges = 2
    MaxGlitches = 2
INVARIANT GuestTypeOK
PROPERTIES GuestFollowsNode GuestNeverGatesAvailability DeliveredIsReported
