SPECIFICATION Spec
CHECK_DEADLOCK FALSE
INVARIANTS ConfirmedMeansGone OwnStopNotAFault NoOrphan
PROPERTIES PromptNeedsAck StopEndsRun
