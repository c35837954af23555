SPECIFICATION MCSpec
CONSTANTS
    Openers = {u1}
    Askers = {}
    Forwards = {}
    Modes = {TRUE, FALSE}
    IdSpace = 2
    Budgets <- MCBudgets
PROPERTY RequestEndsWithChannel
CHECK_DEADLOCK FALSE
