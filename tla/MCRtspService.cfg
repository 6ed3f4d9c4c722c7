SPECIFICATION ServiceSpec
CONSTANTS
    Client = {"c", "d"}
INVARIANTS ThreadsHaveTheirObjects
PROPERTIES FaultsOnlyThere ShutdownEnds
CHECK_DEADLOCK FALSE
