\* The catalog may be down.
CONSTANTS
    k1 = k1  k2 = k2
    Clients = {k1, k2}
    Faults = {"catalog_down"}
SPECIFICATION Spec
INVARIANT FatalFrameDecodes
