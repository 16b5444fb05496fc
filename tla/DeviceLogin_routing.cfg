\* Every login message, offered to the five protocols in turn.
CONSTANTS
    StoreTypes = {"remote", "local"}
    Fetches = {1, 2, 3, 4, 7, 8, 16, 17, 21, 22, 39, 40}
SPECIFICATION Spec
INVARIANTS IInv DeclinedLeaveStream GenuineLoginIsRouted LoginNeedsNoMoreBytes StreamStartsAtBoundary AcceptedTypeSpeaksProtocol
PROPERTY LoginIsHandlers
