\* Every version tag, prefixes of one and two words. The search returns
\* after the draw that hits, so the behaviour really ends there.
CONSTANTS
    W = 7
    POLY = 72
    CharBits = 2
    Words <- MCWords
    BITS_PER_WORD = 2
    Bits = {1, 3}
    Versions <- MCVersions
SPECIFICATION Spec
INVARIANT TypeOK
INVARIANT MnemonicChecksum
INVARIANT NoSuffixMissed
CHECK_DEADLOCK FALSE
