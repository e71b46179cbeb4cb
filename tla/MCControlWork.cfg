CONSTANTS
    None = None
    Submitters = {r1, r2}
    Processes = {p1, p2}
    Keys = {k1, k2}
    Bodies = {b1, b2}
    HourlyLimit = 1
    QuietDays = 1
SPECIFICATION ControlSpec
SYMMETRY Alike
INVARIANTS
    MailedTwiceOnlyAfterLoss
    HourlyLimitHolds
PROPERTIES
    QuietPeriodStands
