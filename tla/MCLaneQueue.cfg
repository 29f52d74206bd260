CONSTANTS
    Entries = {e1, e2, e3, e4, e5}
    Nobody = Nobody
    INITIAL_QUEUE_RING_CAPACITY = 2
    MaxSequence = 8
    MaxLegacy = 2
SYMMETRY Symmetry
SPECIFICATION Spec
PROPERTIES ImplementsFifo
CHECK_DEADLOCK FALSE
