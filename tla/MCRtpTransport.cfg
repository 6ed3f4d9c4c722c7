SPECIFICATION Spec
CONSTANTS
    Buffer = {b1, b2, b3, b4}
    NoBuffer = NoBuffer
    Sizes <- MCSizes
    MTU = 1500
    BandWidth = 1
    MaxPackets = 3
    MaxElapsed = 3
    MaxWraps = 1
INVARIANTS OneOwner SentInOrder QueueBounded StoppedIsQuiet
PROPERTIES StopReturns QueueMoves
CHECK_DEADLOCK FALSE
