SPECIFICATION Spec
CONSTANTS
    q1 = q1  q2 = q2  q3 = q3  a = a  b = b  d1 = d1  c1 = c1
    None = None  Other = Other
    Requests = {q1, q2, q3}
    RunIds = {a, b}
    Roots = {d1}
    Cancels = {c1}
    RunOf <- Ids
    RootOf <- OneRoot
    MaxQueue = 1
    DriverStops = TRUE
    CancelRaises = FALSE
    Shutdowns = FALSE
CHECK_DEADLOCK FALSE
INVARIANTS SlotConserved OneDriver ClaimCoversDriver
