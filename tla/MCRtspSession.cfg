SPECIFICATION Spec
CONSTANTS
    Session = {"c", "d"}
    Worlds <- OneOrTwoClients
    Name = {"live"}
    StreamsOf <- Streams
    FirstPort = 8000
    LastPort = 8004
    MaxUrls = 2
INVARIANTS SessionInv TheAnswerHolds SilentOnlyWithoutPort
PROPERTIES RequestsEnd
CHECK_DEADLOCK FALSE
