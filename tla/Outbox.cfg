\* Two instances of the service share two callbacks, through delays of 4 and the
\* cap of 6, with one fault.  StaleAfter is just longer than a batch of timeouts,
\* as in the defaults (10 rows of 10 s each against 2 min).
SPECIFICATION FairSpec
CONSTANTS
  d1 = d1
  d2 = d2
  Dispatcher = {d1, d2}
  RowId = {1, 2}
  Batch = 2
  MaxAttempts = 3
  RetryBase = 4
  RetryCap = 6
  StaleAfter = 3
  RequestTimeout = 1
  MaxLag = 1
  MaxFaults = 1
INVARIANTS TypeOK ExclusiveClaims MarksAreTrue DuplicatesExplained
PROPERTIES FinalMarks RetryDelay EveryCallbackSettled
