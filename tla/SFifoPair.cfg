SPECIFICATION Spec
CONSTANTS
    Size = 4
    Word = 8
    Asks = {1, 3, 5}
    N = 5
INVARIANTS InOrder
PROPERTIES IsBoundedFifo
