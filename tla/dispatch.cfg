CONSTANTS
  MaxReceipts = 2
  MaxApprovals = 2
  MaxHuman = 1
  MaxFaults = 1
  MaxCancels = 1
  MaxResolves = 1
SPECIFICATION Spec
INVARIANTS ClosedTellsTruth CancelNotPromotable ReviewByLatest GrantsSingleUse
PROPERTIES ReplayNeedsCancel HumanBlockKept 
