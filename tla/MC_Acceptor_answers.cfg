\* Every fault may happen; after `main` has ended nothing is enabled.
CONSTANTS
    k1 = k1  k2 = k2
    Clients = {k1, k2}
    Faults = {"accept_error", "catalog_down", "client_reset"}
SPECIFICATION Spec
INVARIANT ErrorFrameOnlyToRefused
PROPERTY EveryClientAnswered
CHECK_DEADLOCK FALSE
