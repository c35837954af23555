SPECIFICATION MCSpec
CONSTANTS
    Openers = {u1, u2}
    Askers = {a1, a2}
    Forwards = {"forwarded"}
    Modes = {TRUE, FALSE}
    IdSpace = 2
    Budgets <- MCBudgets
CHECK_DEADLOCK FALSE
INVARIANTS  NeverUnknown RequestWoken
PROPERTIES NobodyForgotten
