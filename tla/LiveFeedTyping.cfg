SPECIFICATION Spec
CONSTANTS
    SingleWriter = TRUE
    MaxEvent = 1
PROPERTY NeverClobbersTyping
