\* An unlocked lookup meets a map write.
CONSTANTS
    c1 = c1  c2 = c2  c3 = c3  a1 = a1  a2 = a2
    gt06 = gt06  fm1200 = fm1200  k1 = k1
    Conns <- TwoConns
    Addrs = {a1}
    Devices = {fm1200}
    Commandable = {fm1200}
    Calls = {k1}
    StoreTypes = {"remote"}
    None = None
SPECIFICATION Spec
INVARIANT LookupsAvoidWrites
