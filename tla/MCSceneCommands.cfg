SPECIFICATION CommandsSpec
CONSTANTS
    capacity = 8
    alignment = 2
    CommandSize <- MCCommandSize
    MaxCommands = 5
INVARIANT CommandsPlaced
