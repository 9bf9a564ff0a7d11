CONSTANTS
    FDTABLE_MAX = 6
    BACKLOG_MAX = 2
    RXBUF_SIZE = 2
    MAX_PAYLOAD = 2
    Ports = {1}
    Byte = {1, 2}
SPECIFICATION OrderlySpec
INVARIANTS TypeOK PairInv
PROPERTIES BytesKept ImplementsConnections
