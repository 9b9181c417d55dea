SPECIFICATION Spec
CONSTANTS
    SingleWriter = FALSE
    MaxEvent = 2
PROPERTY ChangeRaisesCursor
