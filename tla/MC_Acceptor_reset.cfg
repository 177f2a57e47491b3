\* The catalog may be down and a client may reset its socket first.
CONSTANTS
    k1 = k1  k2 = k2
    Clients = {k1, k2}
    Faults = {"catalog_down", "client_reset"}
SPECIFICATION Spec
INVARIANT AcceptorSurvives
