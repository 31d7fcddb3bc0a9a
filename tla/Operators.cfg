\* generate_ahead: a window of 20 with the one-thread limit at 10, so both
\* branches run; thread counts that do and do not divide delta.
\* encrypt_data: every length to 600 and the edges of larger size classes.
CONSTANTS
    GA = 20
    SingleLimit = 10
    MaxUsed = 12
    Threads = {1, 2, 3, 4, 6, 8}
    Lengths <- MCLengths
SPECIFICATION Spec
INVARIANT WindowMaterialised
INVARIANT RoundTrip
