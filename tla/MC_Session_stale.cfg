\* A Close routed by a stale lookup closes a concurrently re-declared cursor.
CONSTANTS
    p1 = p1  p2 = p2  c1 = c1  c2 = c2  q1 = q1  q2 = q2
    Peers = {p1, p2}
    Cursors = {c1}
    Procs = {q1, q2}
    Catalog = Catalog
    None = None
    PeerConfig <- MCPeerConfig
    ClientStmts <- MCStmtsPeerDeclare
    DescribeStmts = {}
INIT Init
NEXT Next
INVARIANT CursorTableSound
