CONSTANTS
  Calls = {c1, c2, c3, c4}
  TaskIds = {t1, t2}
  heavy = heavy
  light = light
  missing = missing
  Models <- MCModels
  Pool <- MCPool
  MaxConcurrent <- MCMaxConcurrent
SPECIFICATION FairSpec
INVARIANTS WithinCapacity PromisesAgree
PROPERTIES FirstComeFirstServed QueuedIsAnswered ImplementsLeaseService
CHECK_DEADLOCK FALSE
