CONSTANTS
    s1 = s1
    Slots <- MCSlots
    WordBits <- MCWordBits
    MODULUS <- MCModulus
    XCoord <- MCXCoord
    Entropies <- MCEntropies
    HmacDrbg <- MCHmacDrbg
    MaxRetry <- MCMaxRetry
    ZeroizedScalar <- MCZeroizedScalar
SPECIFICATION Spec
INVARIANTS NonZeroSecret
