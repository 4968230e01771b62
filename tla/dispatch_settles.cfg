CONSTANTS
  MaxReceipts = 1
  MaxApprovals = 1
  MaxHuman = 1
  MaxFaults = 1
  MaxCancels = 1
  MaxResolves = 1
SPECIFICATION Spec
PROPERTIES ActiveSettles
