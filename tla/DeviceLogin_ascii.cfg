\* An ASCII heartbeat whose sequence id looks like the mark of a binary one.
CONSTANTS
    StoreTypes = {"remote", "local"}
    Fetches = {8, 22}
SPECIFICATION Spec
INVARIANT AsciiHeartbeatIsEightBytes
