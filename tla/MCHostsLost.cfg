SPECIFICATION Spec
CONSTANTS
    Consoles = {1}
    Registered = {1}
    Manual = {}
    Devices = {}
    Home = {1}
    Slots = 1
    DropPings = 3
    Grace = 6
    Roaming = FALSE
PROPERTIES LostHostsLeave
CHECK_DEADLOCK FALSE
