\* One instance, as Docker runs it, is stopped once while it serves.
SPECIFICATION StartupFairSpec
CONSTANTS
    i1 = i1
    i2 = i2
    s1 = s1
    None = None
    Sessions = {s1}
    Accounts <- MCAccounts
    Currencies = {"NGN"}
    References = {"r1"}
    Opening <- MCOpening
    MaxNumeric <- MCMaxNumeric
    Orders <- MCOrders
    TopUpOrders <- MCTopUpOrders
    StatusOrders <- MCStatusOrders
    Instances = {i1}
    Seeders = {i1}
    MaxExits = 1
    ExitPcs <- ListeningPc
PROPERTIES
    EveryStartListens
