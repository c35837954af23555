SPECIFICATION FairSpec
CONSTANTS
    Preferences <- MCPreferences
    Moduli = TRUE
    UserMessages <- MCMessages
    Kinds = {"ask","call"}
    RekeyPackets = 5
    OverflowMax = 14
CHECK_DEADLOCK FALSE
INVARIANTS KeysAgree
PROPERTIES UsersStayOut ExchangeEnds
