SPECIFICATION Spec
CONSTANTS
    r1 = r1  r2 = r2  r3 = r3  t1 = t1  t2 = t2  t3 = t3
    m1 = m1  i1 = i1  p1 = p1  p2 = p2  c1 = c1  c2 = c2  None = None
    Runs = {r1, r2, r3}
    Tasks = {t1, t2, t3}
    Hashes = {"h"}
    Presets = {m1}
    Runners = {i1}
    Principals = {p1, p2}
    Cancellers = {c1}
    PrincipalOf <- OnePrincipal
    RunnerOf <- OneRunner
    PerRunner = 1
    MaxQueuedPerRunner = 1
    PrincipalLimit <- LimitOne
    MaxQueuedPerPrincipal = 2
    Capacities = {1, 2}
    Restarts = FALSE
    TaskCancels = FALSE
CHECK_DEADLOCK FALSE
SYMMETRY Symmetry
INVARIANTS CapacityNotReused OutstandingExact
PROPERTIES StatusMonotonic
