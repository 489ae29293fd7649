SPECIFICATION LifecycleLiveSpec
CONSTANTS
    None = None
    Transports = {"direct", "mqtt"}
    Coordinators = {c1, c2}
    Objects = {o1, o2}
    Modes = {"up", "down", "rehomed", "garbage"}
    Certificates = {own, other}
    Pinned = own
    MaxVersion = 2
    MaxUpsets = 2
    MaxFailures = 1
INVARIANTS LifecycleTypeOK OneRecurringPoll NoCredentialToStranger UnsubscribedPoolIsGone
PROPERTIES EventuallyLoaded LoadedIsCurrent
