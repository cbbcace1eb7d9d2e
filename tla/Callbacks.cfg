\* Two events of one or two shipments, fair steps of one instance of the service, a
\* second attempt, one fault.
SPECIFICATION FairCallbacksSpec
CONSTANTS
  d1 = d1
  Dispatcher = {d1}
  RowId = {1, 2}
  Batch = 2
  MaxAttempts = 2
  RetryBase = 1
  RetryCap = 2
  StaleAfter = 3
  RequestTimeout = 1
  MaxLag = 1
  MaxFaults = 1
  MaxShipments = 2
  Status <- MCStatus
  Opening <- MCOpening
  Steps <- MCSteps
INVARIANTS CaughtUp InOrderUnlessRepeated
PROPERTIES EventuallyKnown
