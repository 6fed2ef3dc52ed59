\* One connection, client and server both on this node, one exchange.
CONSTANTS
    c1 = c1
    Conns <- MCConns
    ClientLocal <- MCConns
    ServerLocal <- MCConns
    MaxExchanges = 1
SPECIFICATION Spec
INVARIANT ResponsesJoined
CHECK_DEADLOCK FALSE
