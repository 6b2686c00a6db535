SPECIFICATION Spec
CONSTANTS
    Links = {l1}
    Setups = {}
    Slots = {s1, s2}
    NoLink = NoLink
    NoSetup = NoSetup
    Shapes = {TRUE, FALSE}
    Asked = {"send", "reset", "login"}
    MaxWork = 3
    MaxChanges = 1
    MaxFaults = 0
SYMMETRY Symmetry
CHECK_DEADLOCK FALSE
INVARIANT RightPasswordAccepted
