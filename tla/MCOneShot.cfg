\* One order whose creation is delivered twice, with a failed query.
SPECIFICATION FairSpec
CONSTANTS
    o1 = o1
    Order = {o1}
    Signature <- MCSignature
    NoSignature = NoSignature
    MaxRefused = 1
    Deliveries = 2
INVARIANTS
  Consistent
  RecordsTrue
PROPERTIES
  EveryResultRecorded
\* The one-shot is done, or was never delivered.
CHECK_DEADLOCK FALSE
