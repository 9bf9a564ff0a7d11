CONSTANTS
    ring_size = 2
    WORD = 2
    Bufs = {a, b, d}
    None = None
    Ordered = TRUE
    Widths = {FALSE}
    Carry = TRUE
SPECIFICATION Spec
INVARIANT InOrder
