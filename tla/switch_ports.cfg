SPECIFICATION Spec
CONSTANTS
    Ports <- MCPorts
    DyMark = 11111
    AlMark = 22222
    Missing = Missing
    Dirs = {here}
    Events <- NoEvents
INVARIANT PortsDiffer
