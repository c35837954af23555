SPECIFICATION FairSpec
CONSTANTS
    MaxCalls = 3
    MaxTimeouts = 1
    MaxQueries = 1
    MaxFails = 2
    Methods = {"none","password","publickey","interactive"}
    Allowances <- MCAllowances
    Users = {"root","guest"}
CHECK_DEADLOCK FALSE
INVARIANTS AnswersAreOwn ServerDecides
PROPERTIES CallReturns
