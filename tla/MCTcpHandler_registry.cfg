\* Three connections of one device over two remote addresses.
CONSTANTS
    c1 = c1  c2 = c2  c3 = c3  a1 = a1  a2 = a2
    gt06 = gt06  fm1200 = fm1200  k1 = k1
    Conns <- ThreeConns
    Addrs = {a1, a2}
    Devices = {fm1200}
    Commandable = {fm1200}
    Calls = {}
    StoreTypes = {"remote"}
    None = None
SPECIFICATION Spec
SYMMETRY ConnsAndAddrs
INVARIANTS MutexDiscipline RegistryNamesServedDevice AddressEntriesHaveOwner
PROPERTY EntryOutlivesOlderHandlers
