\* Re-declaring a cursor name on a second peer leaves the first one open and unreachable.
CONSTANTS
    p1 = p1  p2 = p2  c1 = c1  c2 = c2  q1 = q1  q2 = q2
    Peers = {p1, p2}
    Cursors = {c1, c2}
    Procs = {q1}
    Catalog = Catalog
    None = None
    PeerConfig <- MCPeerConfig
    ClientStmts <- MCStmtsPeerDeclare
    DescribeStmts = {}
INIT Init
NEXT Next
INVARIANT CursorReachable
