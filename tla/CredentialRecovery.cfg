SPECIFICATION Spec
CONSTANTS
    Links = {l1, l2}
    Setups = {k1, k2}
    Slots = {s1, s2}
    NoLink = NoLink
    NoSetup = NoSetup
    Shapes = {FALSE}
    Asked = {"forgot", "send", "resend", "reset", "change", "login", "setup"}
    MaxWork = 4
    MaxChanges = 2
    MaxFaults = 2
SYMMETRY Symmetry
CONSTRAINT LinksOrSetups
CHECK_DEADLOCK FALSE
INVARIANTS TypeOK LinksWorkOnce DeliveredLinksWork TemporaryIsOwed
PROPERTIES ConfirmedDiscardHolds WritesMatchAuthority
