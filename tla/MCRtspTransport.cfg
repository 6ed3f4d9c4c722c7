SPECIFICATION FairSpec
CONSTANTS
    Client = {c1, c2}
    Limits = {1, 2}
    MaxInbox = 1
INVARIANTS TransportInv ListIsComplete ClosedIsQuiet
PROPERTIES NothingAfterTeardown CloseReturns DisconnectedIsReaped
