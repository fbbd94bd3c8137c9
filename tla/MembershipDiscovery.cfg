CONSTANTS
    a = a
    b = b
    c = c
    Nodes <- MCNodes
    Hosts <- MCHosts
    Bootstrap <- MCBootstrap
    Visible <- MCVisible
    MaxRestarts = 1
    MaxPending = 2
    MaxFaults = 1
SPECIFICATION Spec
PROPERTY
    Discovers
CHECK_DEADLOCK FALSE
