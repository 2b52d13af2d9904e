SPECIFICATION Spec
CONSTANTS
    Sessions <- MCSessions
    morse_table <- MCMorse
INVARIANTS
    RingExact
    PolybiusRoundTrip
    MorseRoundTrip
CHECK_DEADLOCK FALSE
