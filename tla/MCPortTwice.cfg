SPECIFICATION Spec

CONSTANTS
    Callers = {a}
    Ports = {7411, 7413}
    Tids = {}
    Priorities = {1, 5, 100}
    Serialised = TRUE
    Once = FALSE
    MaxEntries = 3

INVARIANTS
    TableIsMap
