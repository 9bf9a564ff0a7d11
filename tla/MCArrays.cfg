CONSTANTS
    N = 4
    Value = {a, b, c}
    Nil = Nil
    Names = {eth, ppp, lo, usb}
    Ifaces = {x, y}
    NETDEV_MAX_REGISTERED = 3
    NULL = NULL
    ring_size = 2
    WORD = 8
    Bufs = {a, b, d}
    None = None
    Ordered = TRUE
    Widths = {TRUE, FALSE}
    Carry = FALSE
SPECIFICATION MCSpec
INVARIANTS RingInv RegistryOK TypeOK InOrder SlotsApart
PROPERTIES ImplementsQueue ImplementsMap
