CONSTANTS
    Goroutines = {g1, g2, g3}
    Buffers = {b1, b2, b3, b4}
    N = 2
    None = None
    Grown = Grown
SPECIFICATION PoolSpec
INVARIANTS PoolTypeOK TokensAccounted Exclusive NoPanic
PROPERTY LeaseSpec
SYMMETRY Symmetry
