CONSTANTS
    WordBits <- MCWordBits
    MODULUS <- MCModulus
SPECIFICATION Spec
INVARIANT FromDigestCorrect
