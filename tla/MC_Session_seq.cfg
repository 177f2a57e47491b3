\* One request at a time per connection, as pgwire's process_socket serves it.
CONSTANTS
    p1 = p1  p2 = p2  c1 = c1  c2 = c2  q1 = q1  q2 = q2
    Peers = {p1, p2}
    Cursors = {c1, c2}
    Procs = {q1}
    Catalog = Catalog
    None = None
    PeerConfig <- MCPeerConfig
    ClientStmts <- MCStmtsAll
    DescribeStmts <- MCStmtsAll
INIT Init
NEXT Next
INVARIANTS TypeOK ResolvedConsistent CursorTableSound
PROPERTY ImplementsAbstract
