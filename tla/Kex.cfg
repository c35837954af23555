SPECIFICATION ExchangeFairSpec
CONSTANTS
    Settings <- MCSettings
    Exponents = {2,3}
    MinBits = 2
    PreferredBits = 3
    MaxBits = 4
    None = None
CHECK_DEADLOCK FALSE
INVARIANTS  NoFalseAlarm GroupFits
PROPERTIES KexEnds
