SPECIFICATION Spec
CONSTANTS
    MaxEvents = 5
    Page = 2
    MaxIdle = 1
CHECK_DEADLOCK FALSE
INVARIANTS ShownIsAnswer WakeupKept
PROPERTIES EventsArrive ResponseEnds
