SPECIFICATION FlowSpec
CONSTANTS
    None = None
    Households = {h1, h2}
    TheirHome = h1
    Devices = {d1, d2}
    HomeOf <- AllAtHome
    Flows = {f1, f2}
    OptionSets = {o1}
    MaxSecrets = 1
    MaxChanges = 1
SYMMETRY FlowSymmetry
INVARIANT FlowTypeOK
PROPERTIES DirectNeverDuplicates EntriesAreNeverReplaced
