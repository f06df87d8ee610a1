SPECIFICATION BudgetSpec
CONSTANTS
    TokenLimit = 3
    CostLimit = 900
    Model <- DatedModel
    MaxTokens = 2
    MaxCounted = 4
    MaxDay = 1
CHECK_DEADLOCK FALSE
PROPERTY LimitResetsAtMidnight
