SPECIFICATION FlowSpec
CONSTANTS
    None = None
    Households = {h1, h2}
    TheirHome = h1
    Devices = {}
    HomeOf <- AllAtHome
    Flows = {f1, f2}
    OptionSets = {o1}
    MaxSecrets = 3
    MaxChanges = 0
SYMMETRY FlowSymmetry
PROPERTY KeysAreKept
