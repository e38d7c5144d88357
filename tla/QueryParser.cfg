CONSTANTS
    Lower <- MCLower
    SplitField <- MCSplit
    Words <- MCWords
    MaxWords = 7
    Probes <- MCProbes
SPECIFICATION Spec
INVARIANTS
    
    RequiredTokensNecessary
CHECK_DEADLOCK FALSE
