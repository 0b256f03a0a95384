\* Two clients, two grants in three ticks.
CONSTANTS
    c1 = c1
    c2 = c2
    Clients = {c1, c2}
    Limit = 2
    Window = 3
    MaxTime = 7
SYMMETRY ClientsAlike
SPECIFICATION Spec
INVARIANTS
    WindowHolds
PROPERTIES
    RefusalIsDue
