SPECIFICATION Spec
CONSTANTS
    MaxAsks = 3
    Kinds <- Session
    Worlds <- BestAndWorst
INVARIANTS ExchangeInv TheAnswerFits
PROPERTIES AsksEnd
CHECK_DEADLOCK FALSE
