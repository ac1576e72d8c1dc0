SPECIFICATION Spec
CONSTANTS
    WordBits = 4
    IntBits = 3
    Sizes = {8}
    WordValues = {0, 1, 8, 15}
    Unguarded = {"div"}
CHECK_DEADLOCK FALSE
INVARIANTS
    QuotientRight
