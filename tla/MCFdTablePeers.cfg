CONSTANTS
    FDTABLE_MAX = 6
    BACKLOG_MAX = 2
    RXBUF_SIZE = 1
    MAX_PAYLOAD = 1
    Ports = {1}
    Byte = {1}
SPECIFICATION Spec
INVARIANT PairedPeers
